---- MODULE Spec2Model ----
(***************************************************************************)
(* A model of the hourly-interval ETL of smart_bidding:                    *)
(*   - shared/utils/date.py        get_hour_intervals (the interval        *)
(*                                  generator, a pure function)            *)
(*   - smart_bidding/etl/processor.py   Processor.run: one query task per  *)
(*                                  window on a ThreadPoolExecutor, the    *)
(*                                  results drained with as_completed on   *)
(*                                  the submitting thread, transformed and *)
(*                                  written one at a time.                 *)
(*   - shared/utils/date.py        get_date_range_for_past_days            *)
(*   - shared/utils/db_ops.py      execute_query_to_dask_df                *)
(*   - shared/utils/transform_ops.py, smart_bidding/etl/transform.py,      *)
(*     shared/utils/storage_ops.py  get_mapped_value, transform_dask_df    *)
(*                                  and the computation of the lazy frame  *)
(*                                  it returns, made by write_dask_df on   *)
(*                                  the threads of dask's scheduler        *)
(*   - smart_bidding/etl/dictionary.py   Dictionary._load_devices          *)
(*   - smart_bidding/etl/run_etl.py      main and its draining loop        *)
(* A datetime is a whole number of seconds since a midnight; None is the   *)
(* absent datetime.                                                        *)
(***************************************************************************)
EXTENDS Integers, Sequences, FiniteSets, TLC

\* ------------------------------------------------------------- bounds
\* The datetimes handed to get_hour_intervals lie in the hours 0..MaxHours.
MaxHours == 3
\* A run of the Processor covers at most MaxWindows hourly windows.
MaxWindows == 3
\* args.max_workers ranges over 1..MaxWorkers.
MaxWorkers == 2
\* get_date_range_for_past_days is called with days in 1..MaxDays.
MaxDays == 3
\* At most MaxCalls calls of get_mapped_value, transform_dask_df and
\* write_dask_df in a row.
MaxCalls == 2
\* A client's result stream holds at most MaxBatches row batches.
MaxBatches == 2
\* devices.json holds at most MaxDevices devices.
MaxDevices == 3

\* ---------------------------------------------------------- constants
\* date.py: seconds_per_hour = 3600 (one_hour = timedelta(hours=1)).
SecondsPerHour == 3600
\* The absent datetime (Python's None); every datetime is >= 0.
None == -1

VARIABLES
    \* ---- get_hour_intervals called as a function (SpecDate); in Spec,
    \* start_date and end_date are args.start_date and args.end_date
    start_date,      \* argument start_date (a datetime or None)
    end_date,        \* argument end_date (a datetime or None)
    called,          \* FALSE before the call, TRUE once it has returned or raised
    hour_ranges,     \* the list returned (<<>> when it raised)
    raised,          \* the exception raised: "none" or "ValueError"
    \* ---- get_date_range_for_past_days (SpecRange); its result is
    \* start_date, end_date
    days,            \* argument days
    current_time,    \* argument current_time
    range_called,    \* TRUE once get_date_range_for_past_days has returned
    \* ---- Transformer: get_mapped_value and transform_dask_df (SpecTransform)
    dictionaries,    \* dictionary name -> (key -> pair), as get_dictionary gives it
    logged_keys,     \* dictionary name -> the Transformer's logged-keys set for it
    logger_info,     \* log: <<dictionary name, key>> of every miss logged
    lookups,         \* history: <<dictionary name, key>> looked up so far
    last_call,       \* the last get_mapped_value call made directly: <<name, x>>
    ret,             \* what that call returned
    df,              \* the last frame handed to transform_dask_df
    transformed_df,  \* the lazy frame it returned
    t_calls,         \* number of calls made: lookups, transforms and writes
    t_pc,            \* "idle", "built", "computing" (in to_parquet), "written"
    tasks,           \* partition -> where its task stands in the six maps
    parquet,         \* partition -> the rows of its part, once written
    \* ---- execute_query_to_dask_df (SpecQuery)
    client_batches,  \* the row batches the client's stream holds
    client_fails,    \* "none", "submit" (query_df_stream raises), "iterate"
    fail_after,      \* "iterate": batches delivered before the stream raises
    client_exc,      \* type of the exception the client raises
    q_pc,            \* "idle", "call", "stream", "returned", "raised"
    q_next,          \* index of the next batch of the stream
    q_df,            \* the function's df
    q_raised,        \* type of the exception that left the function
    \* ---- Dictionary._load_devices (SpecDevices)
    devices_data,    \* the list read from devices.json
    device_brand,    \* normalized brand name -> brand index
    device_dict,     \* self.dictionaries["device_dict"]: id -> (type, brand index)
    d_next,          \* index of the next device of the loop
    d_pc,            \* "idle", "loop", "loaded"
    \* ---- Processor (Spec) and the script run_etl.py (SpecScript)
    variant,         \* "processor": Processor.run; "script": run_etl.main
    argv_storage_type, \* script: --storage_type as given ("absent": not given)
    setup,           \* script: log of what main() has built before the pool
    calls,           \* history: [op, window, thread] of every call made
    max_workers,     \* args.max_workers
    hour_intervals,  \* self.hour_intervals, computed by __init__
    pc,              \* where the thread calling run() stands
    submitted,       \* number of windows _submit_futures has submitted
    futures,         \* window index -> "unsubmitted", "queued", "taken" (by a pool
                     \* thread), "marked" (running), "running" (in its query),
                     \* "ok", "failed"
    work_queue,      \* the executor's FIFO queue of submitted tasks not yet taken
    yielded,         \* futures as_completed has already yielded
    cur,             \* the future the draining loop is working on (0: none)
    queries,         \* log: parameters of every execute_query_to_dask_df call
    transforms,      \* log: windows handed to transform_dask_df
    writes,          \* log: file_path of every successful write_dask_df
    storage,         \* files present in the storage: <<file_path, 0>> is the
                     \* directory of a partition, <<file_path, p>> its part p
    write_tasks,     \* partition of the frame being written -> where the task
                     \* computing it stands: "test", "add", "store", "stored",
                     \* "failed" (<<>>: no frame has been computed)
    logged_device_keys, \* self.transformer.logged_device_keys: the devices
                     \* the Transformer of the run has logged as missing
    error,           \* the exception run() ends with
    failure_source,  \* history: which operation failed
    at_error         \* history: what was persisted/in flight when the error was raised

dateVars == <<start_date, end_date, called, hour_ranges, raised>>
procVars == <<variant, argv_storage_type, setup, calls, max_workers, hour_intervals, pc, submitted, futures, work_queue,
              yielded, cur, queries, transforms, writes, storage, write_tasks,
              logged_device_keys, error, failure_source, at_error>>
rangeVars == <<days, current_time, range_called>>
\* The variables of the functions checked on their own.
transformVars == <<dictionaries, logged_keys, logger_info, lookups, last_call,
                   ret, df, transformed_df, t_calls, t_pc, tasks, parquet>>
queryVars == <<client_batches, client_fails, fail_after, client_exc, q_pc,
               q_next, q_df, q_raised>>
deviceVars == <<devices_data, device_brand, device_dict, d_next, d_pc>>
fnVars == <<dateVars, rangeVars, transformVars, queryVars, deviceVars>>
vars == <<fnVars, procVars>>

\* ------------------------------------------------- get_hour_intervals

\* date.py:40-43: the two guards that raise ValueError.
InvalidRangeStrict(s, e) == s = None \/ e = None \/ s > e
InvalidRange(s, e) == s = None \/ e = None \/ s >= e

\* date.py:49-52: total_hours = total_seconds // 3600, plus one when a
\* remainder is left.
TotalHoursFloor(s, e) == (e - s) \div SecondsPerHour
TotalHours(s, e) ==
    LET total_seconds == e - s
        total_hours   == total_seconds \div SecondsPerHour
    IN  IF total_seconds % SecondsPerHour > 0 THEN total_hours + 1 ELSE total_hours

\* date.py:57: end = start + one_hour - one_second.
WindowEndWholeHour(start) == start + SecondsPerHour
WindowEnd(start) == start + SecondsPerHour - 1

\* date.py:59: start = end + one_second.
NextStartOverlap(end) == end
NextStart(end) == end + 1

\* date.py:54-59: the loop, n iterations from start.
RECURSIVE HourRangesFrom(_, _)
HourRangesFrom(start, n) ==
    IF n = 0 THEN <<>>
    ELSE LET end == WindowEnd(start)
         IN  <<(<<start, end>>)>> \o HourRangesFrom(NextStart(end), n - 1)

\* date.py:26-61: get_hour_intervals as a whole: what it raises and returns.
GetHourIntervals(s, e) ==
    IF InvalidRange(s, e)
    THEN [raised |-> "ValueError", value |-> <<>>]
    ELSE [raised |-> "none", value |-> HourRangesFrom(s, TotalHours(s, e))]

\* The datetimes tried: in each hour 0..MaxHours, the hour's first second,
\* its second second, its half and its last second.
Offsets == {0, 1, 1800, 3599}
Times == {h * SecondsPerHour + o : h \in 0..MaxHours, o \in Offsets}

ProcIdle ==
    /\ variant = "none" /\ argv_storage_type = "none" /\ setup = <<>>
    /\ calls = {}
    /\ max_workers = 1 /\ hour_intervals = <<>> /\ pc = "idle"
    /\ submitted = 0 /\ futures = <<>> /\ work_queue = <<>>
    /\ yielded = {} /\ cur = 0 /\ queries = <<>> /\ transforms = <<>>
    /\ writes = <<>> /\ storage = {}
    /\ write_tasks = <<>> /\ logged_device_keys = {}
    /\ error = [kind |-> "none", tag |-> None]
    /\ failure_source = "none"
    /\ at_error = [storage |-> {}, before |-> {}, transforms |-> 0, writes |-> 0,
                   unfinished |-> 0]

\* No call of get_date_range_for_past_days is modelled.
RangeIdle == days = 1 /\ current_time = 0 /\ range_called = FALSE

\* The Transformer is not modelled.
NoTable == [columns |-> {}, rows |-> <<>>]
TransformIdle ==
    /\ dictionaries = <<>> /\ logged_keys = <<>> /\ logger_info = <<>>
    /\ lookups = {} /\ last_call = <<>> /\ ret = <<>>
    /\ df = NoTable /\ transformed_df = NoTable /\ t_calls = 0
    /\ t_pc = "idle" /\ tasks = <<>> /\ parquet = <<>>

\* execute_query_to_dask_df is not modelled.
QueryIdle ==
    /\ client_batches = <<>> /\ client_fails = "none" /\ fail_after = 0
    /\ client_exc = "none" /\ q_pc = "idle" /\ q_next = 1
    /\ q_df = NoTable /\ q_raised = "none"

\* Dictionary._load_devices is not modelled.
DeviceIdle ==
    /\ devices_data = <<>> /\ device_brand = <<>> /\ device_dict = <<>>
    /\ d_next = 1 /\ d_pc = "idle"

\* No call of get_hour_intervals has been made.
DateIdle ==
    /\ start_date = None /\ end_date = None /\ called = FALSE
    /\ hour_ranges = <<>> /\ raised = "none"

DateInit ==
    /\ start_date \in Times \cup {None}
    /\ end_date \in Times \cup {None}
    /\ called = FALSE
    /\ hour_ranges = <<>>
    /\ raised = "none"
    /\ RangeIdle
    /\ TransformIdle
    /\ QueryIdle
    /\ DeviceIdle
    /\ ProcIdle

\* One call get_hour_intervals(start_date, end_date).
CallGetHourIntervals ==
    /\ ~called
    /\ called' = TRUE
    /\ LET r == GetHourIntervals(start_date, end_date)
       IN  /\ hour_ranges' = r.value
           /\ raised' = r.raised
    /\ UNCHANGED <<start_date, end_date, rangeVars, transformVars, queryVars,
                   deviceVars, procVars>>

DateNext == CallGetHourIntervals

SpecDate == DateInit /\ [][DateNext]_vars

\* ---------------------------------------- get_date_range_for_past_days

SecondsPerDay == 24 * SecondsPerHour

\* date.py:4-5: END_OF_DAY = (23, 59, 59), START_OF_DAY = (0, 0, 0).
EndOfDay == 23 * SecondsPerHour + 59 * 60 + 59
StartOfDay == 0 * SecondsPerHour + 0 * 60 + 0

\* datetime(t.year, t.month, t.day, *time_of_day): t's calendar day at the
\* given time of day.
OnDayOf(t, time_of_day) == (t \div SecondsPerDay) * SecondsPerDay + time_of_day

\* date.py:19: end_date = datetime(current day, *END_OF_DAY) - timedelta(days=1).
RangeEndToday(ct) == OnDayOf(ct, EndOfDay)
RangeEnd(ct) == OnDayOf(ct, EndOfDay) - SecondsPerDay

\* date.py:20-21: start_date = end_date - timedelta(days=days - 1), moved to
\* START_OF_DAY of its day.
RangeStartKeepsTimeOfDay(d, ct) == RangeEnd(ct) - (d - 1) * SecondsPerDay
RangeStart(d, ct) ==
    OnDayOf(RangeEnd(ct) - (d - 1) * SecondsPerDay, StartOfDay)

\* date.py:8-23: get_date_range_for_past_days.
GetDateRangeForPastDays(d, ct) == <<RangeStart(d, ct), RangeEnd(ct)>>

\* The current times tried: on the two days after day MaxDays, at midnight,
\* one second later, 00:59:59, noon, 12:34:56 and 23:59:59.
TimesOfDay == {0, 1, 3599, 12 * SecondsPerHour,
               12 * SecondsPerHour + 34 * 60 + 56, SecondsPerDay - 1}
CurrentTimes ==
    {d * SecondsPerDay + o : d \in (MaxDays + 1)..(MaxDays + 2), o \in TimesOfDay}

RangeInit ==
    /\ days \in 1..MaxDays
    /\ current_time \in CurrentTimes
    /\ range_called = FALSE
    /\ DateIdle
    /\ TransformIdle
    /\ QueryIdle
    /\ DeviceIdle
    /\ ProcIdle

\* One call get_date_range_for_past_days(days, current_time); run_etl.py:118
\* keeps the pair as the default --start_date and --end_date.
CallGetDateRangeForPastDays ==
    /\ ~range_called
    /\ range_called' = TRUE
    /\ start_date' = GetDateRangeForPastDays(days, current_time)[1]
    /\ end_date' = GetDateRangeForPastDays(days, current_time)[2]
    /\ UNCHANGED <<days, current_time, called, hour_ranges, raised,
                   transformVars, queryVars, deviceVars, procVars>>

\* run_etl.py:101: the range is handed to get_hour_intervals.
IntervalsOfRange == range_called /\ CallGetHourIntervals

RangeNext == CallGetDateRangeForPastDays \/ IntervalsOfRange

SpecRange == RangeInit /\ [][RangeNext]_vars

\* ------------------------------------------- execute_query_to_dask_df

\* A dask frame: its columns, its partitions, each the rows it holds with
\* their index, and its divisions, the index bounds of the partitions, or
\* UnknownDivisions.
UnknownDivisions == <<>>
KnownDivisions(a) == a.divisions # UnknownDivisions

\* db_ops.py:95, 100: dd.from_pandas(chunk, npartitions=1): one partition
\* holding the rows of the chunk, indexed from 0; the divisions of a chunk of
\* no row are unknown.
FromPandas(columns, rows) ==
    [columns    |-> columns,
     partitions |-> <<[i \in 1..Len(rows) |-> [index |-> i - 1, row |-> rows[i]]]>>,
     divisions  |-> IF rows = <<>> THEN UnknownDivisions
                    ELSE <<0, Len(rows) - 1>>]

\* db_ops.py:95: dd.from_pandas(pd.DataFrame(), npartitions=1): no column, no row.
EmptyDf == FromPandas({}, <<>>)

\* The indexed rows of all the partitions of a frame.
RECURSIVE IndexedRowsOf(_)
IndexedRowsOf(partitions) ==
    IF partitions = <<>> THEN <<>>
    ELSE Head(partitions) \o IndexedRowsOf(Tail(partitions))

\* What compute() gives for a frame: its rows, partition after partition.
Rows(a) ==
    LET all == IndexedRowsOf(a.partitions)
    IN  [i \in 1..Len(all) |-> all[i].row]

\* The members of a set of integers in increasing order.
RECURSIVE Sorted(_)
Sorted(S) ==
    IF S = {} THEN <<>>
    ELSE LET least == CHOOSE x \in S : \A y \in S : x <= y
         IN  <<least>> \o Sorted(S \ {least})

\* db_ops.py:105: the divisions of the frames merged: every bound of either,
\* once; a single bound makes one partition.
MergedDivisions(a, b) ==
    LET bounds == {a.divisions[i] : i \in DOMAIN a.divisions}
                     \cup {b.divisions[i] : i \in DOMAIN b.divisions}
    IN  IF Cardinality(bounds) = 1
        THEN LET d == CHOOSE x \in bounds : TRUE IN <<d, d>>
        ELSE Sorted(bounds)

\* The rows of frame a whose index falls in partition k of divisions d: from
\* d[k] up to d[k + 1], which only the last partition includes.
RowsInDivision(a, d, k) ==
    LET in(r) == /\ d[k] <= r.index
                 /\ IF k = Len(d) - 1 THEN r.index <= d[k + 1]
                    ELSE r.index < d[k + 1]
    IN  SelectSeq(IndexedRowsOf(a.partitions), in)

\* db_ops.py:105: dd.concat([df, dask_df_chunk], interleave_partitions=True).
\* Frames of known divisions, the second not wholly after the first, are
\* merged along their index: the partitions are those of the merged
\* divisions, each holding the rows of df in its index range, then the
\* chunk's. When a frame has unknown divisions the partitions of the chunk
\* follow those of df.
ConcatKeepsChunk(a, chunk) == chunk
Concat(a, chunk) ==
    IF KnownDivisions(a) /\ KnownDivisions(chunk)
    THEN IF a.divisions[Len(a.divisions)] < chunk.divisions[1]
         THEN [columns    |-> a.columns \cup chunk.columns,
               partitions |-> a.partitions \o chunk.partitions,
               divisions  |-> SubSeq(a.divisions, 1, Len(a.divisions) - 1)
                              \o chunk.divisions]
         ELSE LET d == MergedDivisions(a, chunk)
              IN  [columns    |-> a.columns \cup chunk.columns,
                   partitions |-> [k \in 1..(Len(d) - 1) |->
                                     RowsInDivision(a, d, k)
                                        \o RowsInDivision(chunk, d, k)],
                   divisions  |-> d]
    ELSE [columns    |-> a.columns \cup chunk.columns,
          partitions |-> a.partitions \o chunk.partitions,
          divisions  |-> UnknownDivisions]

\* db_ops.py:95-107: the frame returned for a stream of batches.
RECURSIVE ConcatChunks(_, _, _)
ConcatChunks(a, columns, batches) ==
    IF batches = <<>> THEN a
    ELSE ConcatChunks(Concat(a, FromPandas(columns, Head(batches))), columns,
                      Tail(batches))
StreamToDaskDf(columns, batches) ==
    IF batches = <<>> THEN EmptyDf
    ELSE ConcatChunks(FromPandas(columns, Head(batches)), columns, Tail(batches))

\* db_ops.py:92-93: what query_df_stream raises is raised again as
\* QueryExecutionError.
SubmitFailure(exc) == "QueryExecutionError"

\* db_ops.py:97-105: what the iteration of the stream raises is under no
\* try: it leaves the function as it is.
IterationFailure(exc) == exc

\* The batches a stream may hold, and the exception types a client raises
\* (test_db_ops.py:20: the mock raises QueryExecutionError itself).
BatchSamples == {<<>>, <<1, 2>>, <<3, 4>>, <<5, 6, 7>>}
Batch(rows) == FromPandas({"col1", "col2"}, rows)
ClientExceptions == {"DatabaseError", "QueryExecutionError"}

\* db_ops.py:65-70: a call execute_query_to_dask_df(client, query) about to
\* be made, for each client.
QueryInit ==
    /\ client_batches \in UNION {[1..n -> BatchSamples] : n \in 0..MaxBatches}
    /\ client_fails \in {"none", "submit", "iterate"}
    /\ fail_after \in 0..Len(client_batches)
    /\ client_fails # "iterate" => fail_after = 0
    /\ client_exc \in ClientExceptions \cup {"none"}
    /\ client_exc = "none" <=> client_fails = "none"
    /\ q_pc = "call"
    /\ q_next = 1
    /\ q_df = NoTable
    /\ q_raised = "none"
    /\ DateIdle
    /\ RangeIdle
    /\ TransformIdle
    /\ DeviceIdle
    /\ ProcIdle

\* db_ops.py:90-95: client.query_df_stream(query) returns the stream.
QueryDfStreamOk ==
    /\ q_pc = "call"
    /\ client_fails # "submit"
    /\ q_pc' = "stream"
    /\ q_df' = EmptyDf
    /\ UNCHANGED <<client_batches, client_fails, fail_after, client_exc, q_next,
                   q_raised, dateVars, rangeVars, transformVars,
                   deviceVars, procVars>>

\* db_ops.py:90-93: client.query_df_stream(query) raises.
QueryDfStreamRaises ==
    /\ q_pc = "call"
    /\ client_fails = "submit"
    /\ q_pc' = "raised"
    /\ q_raised' = SubmitFailure(client_exc)
    /\ UNCHANGED <<client_batches, client_fails, fail_after, client_exc, q_next,
                   q_df, dateVars, rangeVars, transformVars,
                   deviceVars, procVars>>

\* The stream raises instead of giving its next batch (or instead of ending).
StreamRaisesNow ==
    client_fails = "iterate" /\ q_next = fail_after + 1

\* db_ops.py:99-105: one turn of the loop over the stream.
NextChunk ==
    /\ q_pc = "stream"
    /\ q_next <= Len(client_batches)
    /\ ~StreamRaisesNow
    /\ q_df' = IF q_next = 1 THEN Batch(client_batches[q_next])
               ELSE Concat(q_df, Batch(client_batches[q_next]))
    /\ q_next' = q_next + 1
    /\ UNCHANGED <<client_batches, client_fails, fail_after, client_exc, q_pc,
                   q_raised, dateVars, rangeVars, transformVars,
                   deviceVars, procVars>>

\* db_ops.py:97-105: the stream raises while it is iterated.
StreamRaises ==
    /\ q_pc = "stream"
    /\ StreamRaisesNow
    /\ q_pc' = "raised"
    /\ q_raised' = IterationFailure(client_exc)
    /\ UNCHANGED <<client_batches, client_fails, fail_after, client_exc, q_next,
                   q_df, dateVars, rangeVars, transformVars,
                   deviceVars, procVars>>

\* db_ops.py:107: the stream is exhausted: return df.
ReturnDf ==
    /\ q_pc = "stream"
    /\ q_next > Len(client_batches)
    /\ ~StreamRaisesNow
    /\ q_pc' = "returned"
    /\ UNCHANGED <<client_batches, client_fails, fail_after, client_exc, q_next,
                   q_df, q_raised, dateVars, rangeVars, transformVars,
                   deviceVars, procVars>>

QueryNext ==
    \/ QueryDfStreamOk
    \/ QueryDfStreamRaises
    \/ NextChunk
    \/ StreamRaises
    \/ ReturnDf

SpecQuery == QueryInit /\ [][QueryNext]_vars

\* ------------------------------------------- Dictionary._load_devices

\* dictionary.py:27: str.lower() and str.replace(" ", "_"), character by
\* character; a name is a sequence of characters.
Lower(c) == CASE c = "A" -> "a" [] c = "B" -> "b" [] c = "C" -> "c" [] OTHER -> c
ReplaceSpace(c) == IF c = " " THEN "_" ELSE c
Normalize(name) == [i \in 1..Len(name) |-> ReplaceSpace(Lower(name[i]))]

\* dictionary.py:29: the index of a brand name not seen before.
NextBrandIndexFromZero(brands) == Cardinality(DOMAIN brands)
NextBrandIndex(brands) == Cardinality(DOMAIN brands) + 1

\* dictionary.py:29, 31: d[key] = value on a dict.
SetItem(d, key, value) ==
    [x \in DOMAIN d \cup {key} |-> IF x = key THEN value ELSE d[x]]

\* The catalogs loaded: up to MaxDevices devices, their ids not necessarily
\* distinct, whose names differ in case, in space against underscore, or
\* in letters.
DeviceNames == {<<"A", " ", "b">>, <<"a", "_", "b">>, <<"B">>, <<"c">>}
DeviceIds == 1..3
Devices ==
    {[id |-> i, name |-> n, device_type |-> [id |-> 1 + (i % 2)]] :
        i \in DeviceIds, n \in DeviceNames}

\* dictionary.py:22-25: devices.json has been read, device_brand = {}.
DeviceInit ==
    /\ devices_data \in UNION {[1..n -> Devices] : n \in 0..MaxDevices}
    /\ device_brand = <<>>
    /\ device_dict = <<>>
    /\ d_next = 1
    /\ d_pc = "loop"
    /\ DateIdle
    /\ RangeIdle
    /\ TransformIdle
    /\ QueryIdle
    /\ ProcIdle

\* dictionary.py:26-34: one turn of the loop over devices_data.
LoadDevice ==
    /\ d_pc = "loop"
    /\ d_next <= Len(devices_data)
    /\ LET device == devices_data[d_next]
           brand_name == Normalize(device.name)
           brands == IF brand_name \notin DOMAIN device_brand
                     THEN SetItem(device_brand, brand_name,
                                  NextBrandIndex(device_brand))
                     ELSE device_brand
       IN  /\ device_brand' = brands
           /\ device_dict' = SetItem(device_dict, device.id,
                                     <<device.device_type.id, brands[brand_name]>>)
    /\ d_next' = d_next + 1
    /\ UNCHANGED <<devices_data, d_pc, dateVars, rangeVars, transformVars,
                   queryVars, procVars>>

\* dictionary.py:26: the loop is over, _load_devices returns.
LoadDevicesReturn ==
    /\ d_pc = "loop"
    /\ d_next > Len(devices_data)
    /\ d_pc' = "loaded"
    /\ UNCHANGED <<devices_data, device_brand, device_dict, d_next, dateVars,
                   rangeVars, transformVars, queryVars, procVars>>

DeviceNext == LoadDevice \/ LoadDevicesReturn

SpecDevices == DeviceInit /\ [][DeviceNext]_vars

\* -------------------------------------------------------- Transformer

\* dictionary.py:11-15: the three dictionary names.
DictionaryNames == {"device_dict", "product_category_dict", "content_category_dict"}

\* transform_ops.py:64: the default of mapping_dict.get(x, (0, 0)).
DefaultPair == <<0, 0>>

\* transform_ops.py:60: the miss is logged when x is in neither the
\* dictionary nor the logged keys.
MissToLog(x, mapping_dict, logged) ==
    x \notin DOMAIN mapping_dict /\ x \notin logged

\* transform_ops.py:62: logged_keys.add(x).
AddLogged(logged, x) == logged \cup {x}

\* transform_ops.py:64: mapping_dict.get(x, (0, 0)).
MappedPair(x, mapping_dict) ==
    IF x \in DOMAIN mapping_dict THEN mapping_dict[x] ELSE DefaultPair

\* transform_ops.py:47-64: get_mapped_value run by one thread with no other
\* thread on the same logged keys: the pair returned, the logged keys after
\* the call and the keys logged by it.
GetMappedValue(x, mapping_dict, logged) ==
    [ret    |-> MappedPair(x, mapping_dict),
     logged |-> IF MissToLog(x, mapping_dict, logged)
                THEN AddLogged(logged, x) ELSE logged,
     info   |-> IF MissToLog(x, mapping_dict, logged) THEN <<x>> ELSE <<>>]

\* transform.py:50-67: the six maps in the order of the code: the id column
\* read, the dictionary looked up, the item of the pair kept and the column
\* assigned.
Maps ==
    <<[column |-> "iddevice", name |-> "device_dict", item |-> 1,
       out |-> "device_type"],
      [column |-> "iddevice", name |-> "device_dict", item |-> 2,
       out |-> "device_brand"],
      [column |-> "idproduct_category", name |-> "product_category_dict",
       item |-> 1, out |-> "ad_category"],
      [column |-> "idproduct_category", name |-> "product_category_dict",
       item |-> 2, out |-> "ad_sub_category"],
      [column |-> "idcategory", name |-> "content_category_dict", item |-> 1,
       out |-> "content_category"],
      [column |-> "idcategory", name |-> "content_category_dict", item |-> 2,
       out |-> "content_sub_category"]>>

\* transform.py:50-67: Series.map is dask's and visits no row when it is
\* called: to infer the type of the new column it passes a stand-in series to
\* the lambda, in the calling thread. For an integer id column the stand-in
\* holds the value 1, twice.
SampleKey == 1
MetaNonEmpty == <<SampleKey, SampleKey>>

\* transform.py:50-67: the lambda mapped over a series by one thread, value
\* after value, from the state st = [logged, info, vals]: what the type
\* inference of one map does with the stand-in series.
RECURSIVE MapColumn(_, _, _)
MapColumn(column, mapping_dict, st) ==
    IF column = <<>> THEN st
    ELSE LET r == GetMappedValue(Head(column), mapping_dict, st.logged)
         IN  MapColumn(Tail(column), mapping_dict,
                       [logged |-> r.logged,
                        info   |-> st.info \o r.info,
                        vals   |-> Append(st.vals, r.ret)])

\* transform.py:29-46: rename_dict.
RenameDict ==
    [c \in {"idlanguage", "region_geoname_id", "city_geoname_id", "idos",
            "idproxy", "idadvertiser", "idcampaign", "idvariation",
            "idadvertiser_ad_type", "ad_type", "idpublisher", "idsite",
            "idzone", "sub", "idtraffic_type", "goal"} |->
        CASE c = "idlanguage" -> "browser_language"
          [] c = "region_geoname_id" -> "region"
          [] c = "city_geoname_id" -> "city"
          [] c = "idos" -> "os"
          [] c = "idproxy" -> "proxy"
          [] c = "idadvertiser" -> "advertiser_id"
          [] c = "idcampaign" -> "campaign_id"
          [] c = "idvariation" -> "variation_id"
          [] c = "idadvertiser_ad_type" -> "campaign_type"
          [] c = "ad_type" -> "zone_type"
          [] c = "idpublisher" -> "publisher_id"
          [] c = "idsite" -> "site_id"
          [] c = "idzone" -> "zone_id"
          [] c = "sub" -> "sub_id"
          [] c = "idtraffic_type" -> "traffic_type"
          [] c = "goal" -> "conversion_status"]

\* transform.py:47: df.rename(columns=rename_dict).
RenameColumns(columns) ==
    {IF c \in DOMAIN RenameDict THEN RenameDict[c] ELSE c : c \in columns}

\* transform.py:68: the columns dropped.
DroppedColumnsLessOne == {"iddevice", "idproduct_category"}
DroppedColumns == {"iddevice", "idproduct_category", "idcategory"}

\* transform.py:50-66: the columns assigned from the dictionaries.
MappedColumns == {Maps[m].out : m \in DOMAIN Maps}

\* transform.py:71-72: the columns assigned from date_time.
CalendarColumns == {"hour_of_day", "day_of_week"}

\* transform.py:71-72: dt.hour and dt.dayofweek (Monday = 0; day 0 of the
\* model's clock is a Monday).
HourOfDay(t) == (t \div SecondsPerHour) % 24
DayOfWeek(t) == (t \div SecondsPerDay) % 7

\* transform.py:18-74: transform_dask_df on frame t with logged keys lk. The
\* frame returned is lazy: its columns are known, its partitions are those of
\* t and no row of t has been mapped. The logged keys after the call and the
\* misses logged are those of the type inference of the six maps, made in the
\* order of the code.
TransformDaskDf(t, dicts, lk) ==
    LET RECURSIVE Infer(_, _)
        Infer(m, st) ==
            IF m > Len(Maps) THEN st
            ELSE LET n == Maps[m].name
                     r == MapColumn(MetaNonEmpty, dicts[n],
                                    [logged |-> st.logged[n], info |-> <<>>,
                                     vals |-> <<>>])
                 IN  Infer(m + 1,
                           [logged |-> [st.logged EXCEPT ![n] = r.logged],
                            info   |-> st.info
                                       \o [k \in 1..Len(r.info) |-> <<n, r.info[k]>>]])
        st == Infer(1, [logged |-> lk, info |-> <<>>])
    IN  [frame |->
            [columns |-> (((RenameColumns(t.columns) \cup MappedColumns)
                              \ DroppedColumns) \cup CalendarColumns),
             npartitions |-> Len(t.partitions)],
         logged |-> st.logged,
         info |-> st.info]

\* The keys looked up, the dictionaries tried (a key of the dictionary maps
\* to <<key, key - 1>>) and the frames tried: those execute_query_to_dask_df
\* returns for the streams of 1..MaxBatches batches (db_ops.py:95-107).
Keys == {1, 2}
DictionariesOver(present) ==
    [n \in DictionaryNames |-> [k \in present |-> <<k, k - 1>>]]
SourceColumns == {"iddevice", "idproduct_category", "idcategory", "date_time"}
OtherColumns == {"idos", "extra"}
RowA == [iddevice |-> 2, idproduct_category |-> 1, idcategory |-> 2,
         date_time |-> SecondsPerDay + 23 * SecondsPerHour + 1800]
RowB == [iddevice |-> 2, idproduct_category |-> 2, idcategory |-> 1,
         date_time |-> 6 * SecondsPerDay + 3599]
RowBatchSamples == {<<>>, <<RowA>>, <<RowB, RowA>>, <<RowA, RowB, RowA>>}
Frames ==
    {StreamToDaskDf(SourceColumns \cup OtherColumns, batches) :
        batches \in UNION {[1..n -> RowBatchSamples] : n \in 1..MaxBatches}}

\* transform.py:9-16: a Transformer once constructed: no key logged.
TransformInit ==
    /\ \E present \in SUBSET Keys : dictionaries = DictionariesOver(present)
    /\ logged_keys = [n \in DictionaryNames |-> {}]
    /\ logger_info = <<>>
    /\ lookups = {}
    /\ last_call = <<>>
    /\ ret = <<>>
    /\ df = NoTable
    /\ transformed_df = NoTable
    /\ t_calls = 0
    /\ t_pc = "idle"
    /\ tasks = <<>>
    /\ parquet = <<>>
    /\ DateIdle
    /\ RangeIdle
    /\ QueryIdle
    /\ DeviceIdle
    /\ ProcIdle

\* One call get_mapped_value(x, n, the logged keys of n) made by the calling
\* thread while no frame is being computed.
CallGetMappedValue ==
    /\ t_pc \in {"idle", "written"}
    /\ t_calls < MaxCalls
    /\ \E n \in DictionaryNames : \E x \in Keys :
          LET r == GetMappedValue(x, dictionaries[n], logged_keys[n])
          IN  /\ ret' = r.ret
              /\ last_call' = <<n, x>>
              /\ logged_keys' = [logged_keys EXCEPT ![n] = r.logged]
              /\ logger_info' = logger_info \o [k \in 1..Len(r.info) |-> <<n, r.info[k]>>]
              /\ lookups' = lookups \cup {<<n, x>>}
    /\ t_calls' = t_calls + 1
    /\ UNCHANGED <<dictionaries, df, transformed_df, t_pc, tasks, parquet,
                   dateVars, rangeVars, queryVars, deviceVars, procVars>>

\* One call transform_dask_df(t): the lazy frame is returned, only the
\* stand-in value of the type inference has been looked up.
CallTransformDaskDf ==
    /\ t_pc \in {"idle", "written"}
    /\ t_calls < MaxCalls
    /\ \E t \in Frames :
          LET r == TransformDaskDf(t, dictionaries, logged_keys)
          IN  /\ df' = t
              /\ transformed_df' = r.frame
              /\ logged_keys' = r.logged
              /\ logger_info' = logger_info \o r.info
              /\ lookups' = lookups \cup {<<n, SampleKey>> : n \in DictionaryNames}
    /\ t_calls' = t_calls + 1
    /\ t_pc' = "built"
    /\ tasks' = <<>>
    /\ parquet' = <<>>
    /\ UNCHANGED <<dictionaries, last_call, ret, dateVars, rangeVars,
                   queryVars, deviceVars, procVars>>

\* Where a task of n rows stands after the lookup of row i of map m: the next
\* row, or the first row of the next map.
NextLookup(m, i, n) ==
    IF i < n THEN [map |-> m, row |-> i + 1]
    ELSE [map |-> m + 1, row |-> 1]

\* storage_ops.py:56-60: write_dask_df calls to_parquet, which computes the
\* frame: one task for each partition, run by the threads of dask's
\* scheduler. A task maps its partition's rows through the six lambdas, one
\* map after the other as each reads the frame the map before it assigned to;
\* a task of no rows has nothing to look up.
WriteDaskDf ==
    /\ t_pc = "built"
    /\ t_calls < MaxCalls
    /\ t_calls' = t_calls + 1
    /\ t_pc' = "computing"
    /\ tasks' = [p \in 1..Len(df.partitions) |->
                    [map  |-> IF df.partitions[p] = <<>> THEN Len(Maps) + 1 ELSE 1,
                     row  |-> 1,
                     pc   |-> "test",
                     vals |-> [m \in 1..Len(Maps) |-> <<>>]]]
    /\ UNCHANGED <<dictionaries, logged_keys, logger_info, lookups, last_call,
                   ret, df, transformed_df, parquet,
                   dateVars, rangeVars, queryVars, deviceVars, procVars>>

\* The key task p is looking up and the dictionary it looks it up in.
TaskKey(p) == df.partitions[p][tasks[p].row].row[Maps[tasks[p].map].column]
TaskName(p) == Maps[tasks[p].map].name

\* transform_ops.py:64: the lookup of task p returns: the item of the pair
\* is the next value of the column being assigned.
TaskReturn(p) ==
    LET k == tasks[p]
        pair == MappedPair(TaskKey(p), dictionaries[TaskName(p)])
        nxt == NextLookup(k.map, k.row, Len(df.partitions[p]))
    IN  [map  |-> nxt.map,
         row  |-> nxt.row,
         pc   |-> "test",
         vals |-> [k.vals EXCEPT ![k.map] = Append(@, pair[Maps[k.map].item])]]

\* transform_ops.py:58-60, 64: a thread of the scheduler, in the task of
\* partition p, tests whether the key is a miss to log; if it is not, the
\* lookup returns.
TaskTest(p) ==
    /\ t_pc = "computing"
    /\ p \in DOMAIN tasks
    /\ tasks[p].map <= Len(Maps)
    /\ tasks[p].pc = "test"
    /\ lookups' = lookups \cup {<<TaskName(p), TaskKey(p)>>}
    /\ tasks' = [tasks EXCEPT ![p] =
                    IF MissToLog(TaskKey(p), dictionaries[TaskName(p)],
                                 logged_keys[TaskName(p)])
                    THEN [@ EXCEPT !.pc = "log"]
                    ELSE TaskReturn(p)]
    /\ UNCHANGED <<dictionaries, logged_keys, logger_info, last_call, ret, df,
                   transformed_df, t_calls, t_pc, parquet,
                   dateVars, rangeVars, queryVars, deviceVars, procVars>>

\* transform_ops.py:61: the thread logs the miss it found.
TaskLog(p) ==
    /\ t_pc = "computing"
    /\ p \in DOMAIN tasks
    /\ tasks[p].pc = "log"
    /\ logger_info' = Append(logger_info, <<TaskName(p), TaskKey(p)>>)
    /\ tasks' = [tasks EXCEPT ![p].pc = "add"]
    /\ UNCHANGED <<dictionaries, logged_keys, lookups, last_call, ret, df,
                   transformed_df, t_calls, t_pc, parquet,
                   dateVars, rangeVars, queryVars, deviceVars, procVars>>

\* transform_ops.py:62, 64: the thread adds the key to the logged keys and
\* the lookup returns.
TaskAdd(p) ==
    /\ t_pc = "computing"
    /\ p \in DOMAIN tasks
    /\ tasks[p].pc = "add"
    /\ logged_keys' = [logged_keys EXCEPT ![TaskName(p)] = AddLogged(@, TaskKey(p))]
    /\ tasks' = [tasks EXCEPT ![p] = TaskReturn(p)]
    /\ UNCHANGED <<dictionaries, logger_info, lookups, last_call, ret, df,
                   transformed_df, t_calls, t_pc, parquet,
                   dateVars, rangeVars, queryVars, deviceVars, procVars>>

\* transform.py:68-72, storage_ops.py:60: the rows of partition p once its six
\* maps are done: the mapped columns, date_time and the calendar columns.
PartRows(p) ==
    LET rows == df.partitions[p]
        v == tasks[p].vals
    IN  [i \in 1..Len(rows) |->
            [device_type          |-> v[1][i],
             device_brand         |-> v[2][i],
             ad_category          |-> v[3][i],
             ad_sub_category      |-> v[4][i],
             content_category     |-> v[5][i],
             content_sub_category |-> v[6][i],
             date_time            |-> rows[i].row.date_time,
             hour_of_day          |-> HourOfDay(rows[i].row.date_time),
             day_of_week          |-> DayOfWeek(rows[i].row.date_time)]]

\* storage_ops.py:60: the task of partition p writes its part of the parquet
\* dataset.
TaskWrite(p) ==
    /\ t_pc = "computing"
    /\ p \in DOMAIN tasks
    /\ tasks[p].map = Len(Maps) + 1
    /\ p \notin DOMAIN parquet
    /\ parquet' = [q \in DOMAIN parquet \cup {p} |->
                       IF q = p THEN PartRows(p) ELSE parquet[q]]
    /\ UNCHANGED <<dictionaries, logged_keys, logger_info, lookups, last_call,
                   ret, df, transformed_df, t_calls, t_pc, tasks,
                   dateVars, rangeVars, queryVars, deviceVars, procVars>>

\* storage_ops.py:60: to_parquet returns once every part is written.
WriteDaskDfReturn ==
    /\ t_pc = "computing"
    /\ DOMAIN parquet = DOMAIN tasks
    /\ t_pc' = "written"
    /\ UNCHANGED <<dictionaries, logged_keys, logger_info, lookups, last_call,
                   ret, df, transformed_df, t_calls, tasks, parquet,
                   dateVars, rangeVars, queryVars, deviceVars, procVars>>

Task == \E p \in 1..MaxBatches :
            TaskTest(p) \/ TaskLog(p) \/ TaskAdd(p) \/ TaskWrite(p)

TransformNext ==
    \/ CallGetMappedValue
    \/ CallTransformDaskDf
    \/ WriteDaskDf
    \/ Task
    \/ WriteDaskDfReturn

SpecTransform == TransformInit /\ [][TransformNext]_vars

\* ---------------------------------------------------------- Processor

NoError == [kind |-> "none", tag |-> None]

\* Number of windows of the run.
NumWindows == Len(hour_intervals)

\* processor.py:52-56: the params of window i's query.
Params(i) ==
    [start_time |-> hour_intervals[i][1], end_time |-> hour_intervals[i][2]]

\* processor.py:59: the metadata kept with window i's future.
IntervalStartTime(i) == hour_intervals[i][1]

\* processor.py:82: strftime('%Y-%m-%d_%H') of a datetime: its calendar day
\* and its hour of the day; minutes and seconds are dropped.
FilePathDayOnly(t) == <<t \div (24 * SecondsPerHour), 0>>
FilePath(t) == <<t \div (24 * SecondsPerHour), (t \div SecondsPerHour) % 24>>

Finished(i) == futures[i] \in {"ok", "failed"}
Running == {i \in 1..NumWindows : futures[i] = "running"}
\* The tasks a pool thread holds: taken from the queue and not yet finished.
Busy == {i \in 1..NumWindows : futures[i] \in {"taken", "marked", "running"}}
Unfinished == {i \in 1..submitted : ~Finished(i)}

\* processor.py:69: as_completed(futures) yields a future it has not yielded
\* yet as soon as that future has finished, whatever its place in futures.
YieldableInSubmissionOrder(f) ==
    /\ f \in (1..submitted) \ yielded
    /\ Finished(f)
    /\ \A g \in 1..(f - 1) : g \in yielded
Yieldable(f) ==
    /\ f \in (1..submitted) \ yielded
    /\ Finished(f)

\* processor.py:69-85: the for loop asks as_completed for its next future
\* only at the top of a turn, once the body of the turn before (result,
\* transform, write) has run to its end.
LoopReady == pc = "drain"


\* processor.py:91: ThreadPoolExecutor(max_workers=...): the pool has at most
\* max_workers threads, each running one task at a time.
CanStartUnbounded == TRUE
CanStartOnce ==
    Cardinality({i \in 1..NumWindows :
                    futures[i] \notin {"unsubmitted", "queued"}}) < max_workers
CanStart == Cardinality(Busy) < max_workers

\* processor.py:91-93: leaving the with block calls shutdown(wait=True), which
\* returns once every submitted task has run to its end.
PoolNotAwaited == TRUE
PoolDrained == \A i \in 1..submitted : Finished(i)

\* processor.py:73-74: a failed future becomes QueryExecutionError, its message
\* holding metadata['interval_start_time'].
QueryFailureError(i) ==
    [kind |-> "QueryExecutionError", tag |-> IntervalStartTime(i)]

\* processor.py:78-79: TransformError(f"Failed to transform dataset: {e}").
TransformFailureAsWriteError(i) == [kind |-> "StorageWriteError", tag |-> None]
TransformFailureError(i) == [kind |-> "TransformError", tag |-> None]

\* processor.py:84-85: StorageWriteError(f"Failed to write: {e}").
WriteFailureError(i) == [kind |-> "StorageWriteError", tag |-> None]

\* run_etl.py:78-79: what the transform or the write raises is raised again
\* as StorageWriteError(f"Failed to write: {e}"), inside the outer try.
ScriptInnerError == "StorageWriteError"

\* run_etl.py:80-81: whatever is raised inside the outer try, by
\* future.result() or by the inner raise, is raised again as
\* QueryExecutionError with metadata['interval_start_time'] in its message.
ScriptOuterError(i, inner) ==
    [kind |-> "QueryExecutionError", tag |-> IntervalStartTime(i)]

\* processor.py:58: the callable submitted to the pool is
\* execute_query_to_dask_df alone: the query runs on a pool thread.
QueryThread == "worker"

\* processor.py:76-77, 81-83: transform_dask_df and write_dask_df are called
\* in the loop of _process_future_results, on the thread that called run().
TransformThreadWorker == "worker"
TransformThread == "main"
WriteThread == "main"

\* One call of an operation for a window, on a thread.
Call(op, window, thread) == [op |-> op, window |-> window, thread |-> thread]

\* storage_ops.py:60: to_parquet computes the frame on dask's threaded
\* scheduler: the task of partition p runs on a thread of the scheduler's own
\* pool, neither the thread that called run() nor a thread of the executor.
DaskThread(p) == "dask-" \o ToString(p)

\* processor.py:58, 76-83, transform.py:50-67: the calls in progress: the
\* query of every running task, the transform or the write the draining loop
\* is making, the get_mapped_value lookups transform_dask_df makes in the
\* calling thread on the stand-in values of the six maps, and the lookups of
\* the tasks of the frame being written, each on its thread of dask's
\* scheduler.
ActiveCalls ==
    {Call("query", i, QueryThread) : i \in Running}
    \cup (IF pc = "transform"
          THEN {Call("transform", cur, TransformThread),
                Call("get_mapped_value", cur, TransformThread)}
          ELSE {})
    \cup (IF pc = "write" THEN {Call("write", cur, WriteThread)} ELSE {})
    \cup {Call("get_mapped_value", cur, DaskThread(p)) :
             p \in {q \in DOMAIN write_tasks : write_tasks[q] \in {"test", "add"}}}

\* processor.py:57: what get_client raises leaves run() as it is.
ClientFailureError == [kind |-> "ClientException", tag |-> None]

\* processor.py:82: the file_path of the window the loop is working on.
CurPath == FilePath(IntervalStartTime(cur))

\* The files that were in the storage when the operation that raises was
\* called: a write has added files of its own partition only, a query or a
\* transform none.
StoredBefore(source) ==
    IF source = "write" THEN {f \in storage : f[1] # CurPath} ELSE storage

\* A raise in the body of the with block: the exception leaves the loop and
\* the block, whose exit shuts the pool down.
RaiseAndContinue(err, source) ==
    /\ error' = err
    /\ failure_source' = source
    /\ at_error' = [storage |-> storage, before |-> StoredBefore(source),
                    transforms |-> Len(transforms), writes |-> Len(writes),
                    unfinished |-> Cardinality(Unfinished)]
    /\ pc' = "drain"
Raise(err, source) ==
    /\ error' = err
    /\ failure_source' = source
    /\ at_error' = [storage |-> storage, before |-> StoredBefore(source),
                    transforms |-> Len(transforms), writes |-> Len(writes),
                    unfinished |-> Cardinality(Unfinished)]
    /\ pc' = "shutdown"

\* The ranges a Processor is built for: from midnight or from 23:30, up to
\* MaxWindows hours long, in steps of half an hour.
RunStarts == {0, 23 * SecondsPerHour + 1800}
RunEnds(s) == {s + k * 1800 : k \in 1..(2 * MaxWindows)}

\* The stream of row batches the client returns for the query of a window:
\* batches of 3, 2, 1, ... rows, the device of every row missing from the
\* device dictionary of the run. A stream of one batch gives a frame of one
\* partition; from two batches on, concat merges the divisions (0, 2) and
\* (0, 1) into (0, 1, 2): a frame of two partitions.
RunBatch(k) == CHOOSE b \in RowBatchSamples : Len(b) = (IF k < 4 THEN 4 - k ELSE 0)
RunStream(n) == [k \in 1..n |-> RunBatch(k)]
OneBatchStreams == {RunStream(1)}
ManyBatchStreams == {RunStream(MaxBatches)}

\* db_ops.py:95-107: the frame execute_query_to_dask_df returns for the
\* stream; transform_dask_df keeps its partitions.
RunFrame == StreamToDaskDf(SourceColumns \cup OtherColumns, client_batches)

\* dictionary.py:11-15: the device dictionary of the run: it holds the key of
\* the stand-in row dask infers the types with, not the device of the rows.
RunDeviceDict == DictionariesOver({SampleKey})["device_dict"]

\* The arguments of a run: args.start_date, args.end_date, args.max_workers,
\* and the stream the client returns for the queries of the run.
RunArguments(streams) ==
    /\ start_date \in RunStarts
    /\ end_date \in RunEnds(start_date)
    /\ called = FALSE /\ hour_ranges = <<>> /\ raised = "none"
    /\ RangeIdle
    /\ TransformIdle
    /\ client_batches \in streams
    /\ client_fails = "none" /\ fail_after = 0 /\ client_exc = "none"
    /\ q_pc = "idle" /\ q_next = 1 /\ q_df = NoTable /\ q_raised = "none"
    /\ DeviceIdle
    /\ max_workers \in 1..MaxWorkers

\* Nothing has been submitted, drained, written or raised.
NothingRun ==
    /\ calls = {}
    /\ submitted = 0
    /\ work_queue = <<>>
    /\ yielded = {}
    /\ cur = 0
    /\ queries = <<>>
    /\ transforms = <<>>
    /\ writes = <<>>
    /\ storage = {}
    /\ write_tasks = <<>>
    /\ logged_device_keys = {}
    /\ error = NoError
    /\ failure_source = "none"
    /\ at_error = [storage |-> {}, before |-> {}, transforms |-> 0, writes |-> 0,
                   unfinished |-> 0]

\* processor.py:20-38: the Processor once constructed over args and the
\* collaborators handed to it.
Constructed(streams) ==
    /\ RunArguments(streams)
    /\ argv_storage_type = "none"
    /\ setup = <<>>
    /\ hour_intervals = GetHourIntervals(start_date, end_date).value
    /\ pc = "init"
    /\ futures = [i \in 1..NumWindows |-> "unsubmitted"]
    /\ NothingRun

\* processor.py:20-38: a Processor about to run.
Init == variant = "processor" /\ Constructed(OneBatchStreams)

\* A Processor about to run over queries whose frames have two partitions.
PartitionedInit == variant = "processor" /\ Constructed(ManyBatchStreams)

\* run_etl.py:158-163: --storage_type, 'remote' when it is not given.
DefaultStorageType == "remote"
StorageType ==
    IF argv_storage_type = "absent" THEN DefaultStorageType ELSE argv_storage_type

\* run_etl.py:93-96: the storage class main() constructs.
StorageClass == IF StorageType = "local" THEN "LocalStorage" ELSE "S3Storage"

\* storage_ops.py:64-74: S3Storage.__init__ raises NotImplementedError;
\* storage_ops.py:33-43: LocalStorage.__init__ returns.
ConstructorNeverRaises(cls) == FALSE
ConstructorRaises(cls) == cls = "S3Storage"

\* run_etl.py:168-170: main(args) is about to be called with the parsed
\* arguments.
ScriptInit ==
    /\ variant = "script"
    /\ RunArguments(OneBatchStreams)
    /\ argv_storage_type \in {"absent", "local", "remote"}
    /\ setup = <<>>
    /\ hour_intervals = <<>>
    /\ pc = "main"
    /\ futures = <<>>
    /\ NothingRun

\* run_etl.py:93-96: main() constructs the storage; the exception of the
\* constructor leaves main(), which has not entered its with block.
MainCreateStorage ==
    /\ pc = "main"
    /\ setup = <<>>
    /\ setup' = <<StorageClass>>
    /\ IF ConstructorRaises(StorageClass)
       THEN /\ pc' = "raised"
            /\ error' = [kind |-> "NotImplementedError", tag |-> None]
            /\ failure_source' = "storage_init"
       ELSE UNCHANGED <<pc, error, failure_source>>
    /\ UNCHANGED <<fnVars, write_tasks, logged_device_keys, argv_storage_type, variant, calls, max_workers,
                   hour_intervals, submitted, futures, work_queue, yielded,
                   cur, queries, transforms, writes, storage, at_error>>

\* run_etl.py:98-104: main() reads the query, computes the hour intervals
\* and builds the Dictionary and the Transformer.
MainSetup ==
    /\ pc = "main"
    /\ setup # <<>>
    /\ setup' = setup \o <<"read_query_from_file", "get_hour_intervals",
                           "Dictionary", "Transformer">>
    /\ hour_intervals' = GetHourIntervals(start_date, end_date).value
    /\ futures' = [i \in 1..Len(hour_intervals') |-> "unsubmitted"]
    /\ pc' = "init"
    /\ UNCHANGED <<fnVars, write_tasks, logged_device_keys, argv_storage_type, variant, calls, max_workers,
                   submitted, work_queue, yielded, cur, queries, transforms,
                   writes, storage, error, failure_source, at_error>>

\* processor.py:87-92: run() enters the with block and calls _submit_futures.
Run ==
    /\ pc = "init"
    /\ pc' = "submit"
    /\ UNCHANGED <<fnVars, write_tasks, logged_device_keys, argv_storage_type, setup, variant, calls, max_workers, hour_intervals, submitted, futures,
                   work_queue, yielded, cur, queries, transforms, writes,
                   storage, error, failure_source, at_error>>

\* processor.py:51-59: one iteration of the submission loop.
SubmitTask ==
    /\ pc = "submit"
    /\ submitted < NumWindows
    /\ submitted' = submitted + 1
    /\ futures' = [futures EXCEPT ![submitted + 1] = "queued"]
    /\ work_queue' = Append(work_queue, submitted + 1)
    /\ UNCHANGED <<fnVars, write_tasks, logged_device_keys, argv_storage_type, setup, variant, calls, max_workers, hour_intervals, pc, yielded, cur,
                   queries, transforms, writes, storage, error,
                   failure_source, at_error>>

\* processor.py:57: get_client raises in the submission loop.
GetClientFails ==
    /\ pc = "submit"
    /\ submitted < NumWindows
    /\ Raise(ClientFailureError, "client")
    /\ UNCHANGED <<fnVars, write_tasks, logged_device_keys, argv_storage_type, setup, variant, calls, max_workers, hour_intervals, submitted, futures,
                   work_queue, yielded, cur, queries, transforms, writes,
                   storage>>

\* processor.py:60, 92-93: _submit_futures returns, the draining loop starts.
SubmitReturn ==
    /\ pc = "submit"
    /\ submitted = NumWindows
    /\ pc' = "drain"
    /\ UNCHANGED <<fnVars, write_tasks, logged_device_keys, argv_storage_type, setup, variant, calls, max_workers, hour_intervals, submitted, futures,
                   work_queue, yielded, cur, queries, transforms, writes,
                   storage, error, failure_source, at_error>>

\* processor.py:58, 91: a pool thread that holds no task takes the oldest
\* queued one from the pool's queue; the task's future is still pending.
WorkerGet ==
    /\ work_queue # <<>>
    /\ CanStart
    /\ futures' = [futures EXCEPT ![Head(work_queue)] = "taken"]
    /\ work_queue' = Tail(work_queue)
    /\ UNCHANGED <<fnVars, write_tasks, logged_device_keys, argv_storage_type, setup, variant, calls, max_workers, hour_intervals, pc, submitted,
                   yielded, cur, queries, transforms, writes, storage, error,
                   failure_source, at_error>>

\* processor.py:58: the pool thread marks the future of the task it took as
\* running; no task is ever cancelled.
WorkerSetRunning ==
    /\ \E i \in 1..NumWindows :
          /\ futures[i] = "taken"
          /\ futures' = [futures EXCEPT ![i] = "marked"]
    /\ UNCHANGED <<fnVars, write_tasks, logged_device_keys, argv_storage_type, setup, variant, calls, max_workers, hour_intervals, pc, submitted,
                   work_queue, yielded, cur, queries, transforms, writes,
                   storage, error, failure_source, at_error>>

\* processor.py:58: the pool thread calls
\* execute_query_to_dask_df(client, query, params) for the task it holds.
WorkerStart ==
    /\ \E i \in 1..NumWindows :
          /\ futures[i] = "marked"
          /\ futures' = [futures EXCEPT ![i] = "running"]
          /\ queries' = Append(queries, Params(i))
          /\ calls' = calls \cup {Call("query", i, QueryThread)}
    /\ UNCHANGED <<fnVars, write_tasks, logged_device_keys, argv_storage_type, setup, variant, max_workers, hour_intervals, pc, submitted,
                   work_queue, yielded, cur, transforms, writes, storage, error,
                   failure_source, at_error>>

\* processor.py:58: the query of a running task returns its table or raises.
WorkerFinish ==
    /\ \E i \in Running : \E outcome \in {"ok", "failed"} :
          futures' = [futures EXCEPT ![i] = outcome]
    /\ UNCHANGED <<fnVars, write_tasks, logged_device_keys, argv_storage_type, setup, variant, calls, max_workers, hour_intervals, pc, submitted,
                   work_queue, yielded, cur, queries, transforms, writes,
                   storage, error, failure_source, at_error>>

\* processor.py:69-72: as_completed yields a finished future whose result()
\* returns the table.
DrainQueryOkOf(f) ==
    /\ LoopReady
    /\ Yieldable(f)
    /\ futures[f] = "ok"
    /\ yielded' = yielded \cup {f}
    /\ cur' = f
    /\ pc' = "transform"
    /\ UNCHANGED <<fnVars, write_tasks, logged_device_keys, argv_storage_type, setup, variant, calls, max_workers, hour_intervals,
                   submitted, futures, work_queue, queries, transforms,
                   writes, storage, error, failure_source, at_error>>

DrainQueryOk == \E f \in 1..submitted : DrainQueryOkOf(f)

\* processor.py:69-74: as_completed yields a finished future whose result()
\* raises.
DrainQueryFailedOf(f) ==
    /\ LoopReady
    /\ Yieldable(f)
    /\ futures[f] = "failed"
    /\ yielded' = yielded \cup {f}
    /\ cur' = f
    /\ Raise(IF variant = "script" THEN ScriptOuterError(f, "QueryFailure")
             ELSE QueryFailureError(f), "query")
    /\ UNCHANGED <<fnVars, write_tasks, logged_device_keys, argv_storage_type, setup, variant, calls, max_workers, hour_intervals,
                   submitted, futures, work_queue, queries, transforms,
                   writes, storage>>

DrainQueryFailed == \E f \in 1..submitted : DrainQueryFailedOf(f)

\* processor.py:69: as_completed has yielded every future: the loop ends.
DrainExhausted ==
    /\ LoopReady
    /\ yielded = 1..submitted
    /\ pc' = "shutdown"
    /\ UNCHANGED <<fnVars, write_tasks, logged_device_keys, argv_storage_type, setup, variant, calls, max_workers, hour_intervals, submitted, futures,
                   work_queue, yielded, cur, queries, transforms, writes,
                   storage, error, failure_source, at_error>>

\* transform.py:50-53: the two maps of iddevice, as transform_dask_df runs
\* them in the calling thread: get_mapped_value on the stand-in values, from
\* the logged device keys lk; the logged device keys afterwards.
InferDeviceMaps(lk) ==
    LET once == MapColumn(MetaNonEmpty, RunDeviceDict,
                          [logged |-> lk, info |-> <<>>, vals |-> <<>>])
    IN  MapColumn(MetaNonEmpty, RunDeviceDict,
                  [logged |-> once.logged, info |-> <<>>, vals |-> <<>>]).logged

\* processor.py:76-77: transform_dask_df returns: it has built the lazy
\* frame, looking up the stand-in values of the maps in the calling thread.
TransformOk ==
    /\ pc = "transform"
    /\ transforms' = Append(transforms, cur)
    /\ pc' = "write"
    /\ calls' = calls \cup {Call("transform", cur, TransformThread)}
    /\ logged_device_keys' = InferDeviceMaps(logged_device_keys)
    /\ UNCHANGED <<fnVars, write_tasks, argv_storage_type, setup, variant, max_workers, hour_intervals, submitted, futures,
                   work_queue, yielded, cur, queries, writes, storage, error,
                   failure_source, at_error>>

\* processor.py:76-79: transform_dask_df raises.
TransformFails ==
    /\ pc = "transform"
    /\ Raise(IF variant = "script" THEN ScriptOuterError(cur, ScriptInnerError)
             ELSE TransformFailureError(cur), "transform")
    /\ calls' = calls \cup {Call("transform", cur, TransformThread)}
    /\ UNCHANGED <<fnVars, write_tasks, logged_device_keys, argv_storage_type, setup, variant, max_workers, hour_intervals, submitted, futures,
                   work_queue, yielded, cur, queries, transforms, writes,
                   storage>>

\* The partitions that have a directory in the storage, and the parts
\* present in the directory of a partition.
Directories == {f[1] : f \in storage}
PartsOf(path) == {f[2] : f \in {g \in storage : g[1] = path}} \ {0}

\* The partitions a write_dask_df that returned has stored: the directory
\* and every part of the frame written, one part per partition of the frame.
WrittenPaths == {writes[k] : k \in 1..Len(writes)}
Complete(path) ==
    /\ path \in WrittenPaths
    /\ <<path, 0>> \in storage
    /\ PartsOf(path) = 1..Len(RunFrame.partitions)
CompletePartitions == {path \in Directories : Complete(path)}

\* The tasks of the frame being computed that have neither ended nor raised.
TasksAtWork == {p \in DOMAIN write_tasks : write_tasks[p] \in {"test", "add", "store"}}
\* The tasks standing between the test of transform_ops.py:60 and the add of
\* transform_ops.py:62: each is about to log the key and add it to the set.
TasksMutating == {p \in DOMAIN write_tasks : write_tasks[p] = "add"}

\* storage_ops.py:56-60: write_dask_df calls df.to_parquet(full_path), which
\* creates the directory of the partition and hands the lazy frame to dask's
\* threaded scheduler: one task per partition of the frame, each mapping the
\* rows of its partition and then writing its part.
WriteToParquet ==
    /\ pc = "write"
    /\ write_tasks = <<>>
    /\ write_tasks' = [p \in 1..Len(RunFrame.partitions) |-> "test"]
    /\ storage' = storage \cup {<<CurPath, 0>>}
    /\ UNCHANGED <<fnVars, logged_device_keys, argv_storage_type, setup, variant,
                   calls, max_workers, hour_intervals, pc, submitted, futures,
                   work_queue, yielded, cur, queries, transforms, writes, error,
                   failure_source, at_error>>

\* The device looked up for partition p: the iddevice of its rows.
WriteTaskKey(p) == RunFrame.partitions[p][1].row.iddevice

\* transform.py:50-53, transform_ops.py:58-60, 64: a thread of the scheduler,
\* in the task of partition p, runs the lambdas of the maps on the rows of
\* the partition: get_mapped_value tests whether the device is a miss to
\* log in the logged keys of the Transformer all windows share; if it is
\* not, the lookups return and the part is ready to be written. (The
\* lookups of a task are taken as one, that of the device of its rows;
\* SpecTransform follows them row by row and map by map.)
WriteTaskTest(p) ==
    /\ p \in DOMAIN write_tasks
    /\ write_tasks[p] = "test"
    /\ write_tasks' = [write_tasks EXCEPT ![p] =
                          IF /\ RunFrame.partitions[p] # <<>>
                             /\ MissToLog(WriteTaskKey(p), RunDeviceDict,
                                          logged_device_keys)
                          THEN "add" ELSE "store"]
    /\ UNCHANGED <<fnVars, logged_device_keys, argv_storage_type, setup, variant,
                   calls, max_workers, hour_intervals, pc, submitted, futures,
                   work_queue, yielded, cur, queries, transforms, writes,
                   storage, error, failure_source, at_error>>

\* transform_ops.py:61-62, 64: the thread logs the miss it found, adds the
\* key to the logged keys and the lookups return.
WriteTaskAdd(p) ==
    /\ p \in DOMAIN write_tasks
    /\ write_tasks[p] = "add"
    /\ logged_device_keys' = AddLogged(logged_device_keys, WriteTaskKey(p))
    /\ write_tasks' = [write_tasks EXCEPT ![p] = "store"]
    /\ UNCHANGED <<fnVars, argv_storage_type, setup, variant,
                   calls, max_workers, hour_intervals, pc, submitted, futures,
                   work_queue, yielded, cur, queries, transforms, writes,
                   storage, error, failure_source, at_error>>

\* storage_ops.py:60: the task of partition p writes its part into the
\* directory of the partition.
WriteTaskStore(p) ==
    /\ p \in DOMAIN write_tasks
    /\ write_tasks[p] = "store"
    /\ storage' = storage \cup {<<CurPath, p>>}
    /\ write_tasks' = [write_tasks EXCEPT ![p] = "stored"]
    /\ UNCHANGED <<fnVars, logged_device_keys, argv_storage_type, setup, variant,
                   calls, max_workers, hour_intervals, pc, submitted, futures,
                   work_queue, yielded, cur, queries, transforms, writes, error,
                   failure_source, at_error>>

\* The threads of dask's scheduler, at work inside to_parquet.
WriteTask == \E p \in 1..MaxBatches :
                WriteTaskTest(p) \/ WriteTaskAdd(p) \/ WriteTaskStore(p)

\* processor.py:81-83: write_dask_df(transformed_df, file_path) returns, once
\* every part is written.
WriteOk ==
    /\ pc = "write"
    /\ write_tasks # <<>>
    /\ \A p \in DOMAIN write_tasks : write_tasks[p] = "stored"
    /\ writes' = Append(writes, CurPath)
    /\ write_tasks' = <<>>
    /\ pc' = "drain"
    /\ calls' = calls \cup {Call("write", cur, WriteThread)}
    /\ UNCHANGED <<fnVars, logged_device_keys, argv_storage_type, setup, variant, max_workers, hour_intervals, submitted, futures,
                   work_queue, yielded, cur, queries, transforms, storage, error,
                   failure_source, at_error>>

\* processor.py:84-85: what write_dask_df raises becomes StorageWriteError.
WriteRaise ==
    /\ Raise(IF variant = "script" THEN ScriptOuterError(cur, ScriptInnerError)
             ELSE WriteFailureError(cur), "write")
    /\ calls' = calls \cup {Call("write", cur, WriteThread)}

\* processor.py:81-85, storage_ops.py:56-60: write_dask_df raises before
\* to_parquet has created the directory: nothing of the window is stored.
WriteFails ==
    /\ pc = "write"
    /\ write_tasks = <<>>
    /\ WriteRaise
    /\ UNCHANGED <<fnVars, write_tasks, logged_device_keys, argv_storage_type, setup, variant, max_workers, hour_intervals, submitted, futures,
                   work_queue, yielded, cur, queries, transforms, writes,
                   storage>>

\* processor.py:81-85, storage_ops.py:60: the task of partition p raises, in
\* its lookups or writing its part, and to_parquet raises what it raised.
\* write_dask_df removes nothing: the directory and the parts already written
\* stay, and the tasks of the other partitions, each on its thread of the
\* scheduler, are not stopped.
WriteTaskFails(p) ==
    /\ pc = "write"
    /\ p \in TasksAtWork
    /\ write_tasks' = [write_tasks EXCEPT ![p] = "failed"]
    /\ WriteRaise
    /\ UNCHANGED <<fnVars, logged_device_keys, argv_storage_type, setup, variant, max_workers, hour_intervals, submitted, futures,
                   work_queue, yielded, cur, queries, transforms, writes,
                   storage>>
WriteComputeFails == \E p \in 1..MaxBatches : WriteTaskFails(p)

\* processor.py:91-95: the with block is left once the pool has shut down;
\* run() returns, or the exception raised in the block reaches the caller.
Exit ==
    /\ pc = "shutdown"
    /\ PoolDrained
    /\ pc' = IF error = NoError THEN "returned" ELSE "raised"
    /\ UNCHANGED <<fnVars, write_tasks, logged_device_keys, argv_storage_type, setup, variant, calls, max_workers, hour_intervals, submitted, futures,
                   work_queue, yielded, cur, queries, transforms, writes,
                   storage, error, failure_source, at_error>>

Next ==
    \/ Run
    \/ SubmitTask
    \/ GetClientFails
    \/ SubmitReturn
    \/ WorkerGet
    \/ WorkerSetRunning
    \/ WorkerStart
    \/ WorkerFinish
    \/ DrainQueryOk
    \/ DrainQueryFailed
    \/ DrainExhausted
    \/ TransformOk
    \/ TransformFails
    \/ WriteToParquet
    \/ WriteTask
    \/ WriteOk
    \/ WriteFails
    \/ WriteComputeFails
    \/ Exit

Spec == Init /\ [][Next]_vars

\* Processor.run over queries whose frames have two partitions.
SpecPartitioned == PartitionedInit /\ [][Next]_vars

\* run_etl.py:84-108: the script: the same pool, submission loop and draining
\* loop, with the error handling of its own process_future_results.
ScriptNext ==
    \/ MainCreateStorage
    \/ MainSetup
    \/ Next

SpecScript == ScriptInit /\ [][ScriptNext]_vars

\* The steps of the thread that called run().
MainThread ==
    \/ Run
    \/ SubmitTask
    \/ GetClientFails
    \/ SubmitReturn
    \/ DrainQueryOk
    \/ DrainQueryFailed
    \/ DrainExhausted
    \/ TransformOk
    \/ TransformFails
    \/ WriteToParquet
    \/ WriteOk
    \/ WriteFails
    \/ WriteComputeFails
    \/ Exit

\* Processor.run under fair scheduling: the calling thread, the pool threads
\* and the threads of dask's scheduler keep running while they have a step to
\* take, and a query that has started ends.
SpecFair ==
    /\ Init
    /\ [][Next]_vars
    /\ WF_vars(MainThread)
    /\ WF_vars(WorkerGet)
    /\ WF_vars(WorkerSetRunning)
    /\ WF_vars(WorkerStart)
    /\ WF_vars(WorkerFinish)
    /\ WF_vars(WriteTask)

\* ------------------------------------------------ claims on Processor.run

\* The file paths written by the run are pairwise distinct.
DistinctWrites ==
    \A a, b \in 1..Len(writes) : a # b => writes[a] # writes[b]

\* C1: a run over N windows in which no query, transform or write fails (the
\* only runs that return) has issued exactly N queries, one per window with
\* that window's start and end, and has made exactly N writes with pairwise
\* distinct keys, one per window start, whatever the completion order.
C1_OneQueryOneWritePerWindow ==
    pc = "returned" =>
        /\ failure_source = "none"
        /\ Len(queries) = NumWindows
        /\ \A i \in 1..NumWindows :
              Cardinality({q \in 1..Len(queries) : queries[q] = Params(i)}) = 1
        /\ Len(writes) = NumWindows
        /\ DistinctWrites
        /\ \A i \in 1..NumWindows :
              Cardinality({w \in 1..Len(writes) :
                              writes[w] = FilePath(IntervalStartTime(i))}) = 1
        /\ Directories = {FilePath(IntervalStartTime(i)) : i \in 1..NumWindows}
        /\ CompletePartitions = Directories
        /\ Cardinality(Directories) = NumWindows

\* C1 witness: a run over three windows from 23:30 returned, having written
\* the last window first and the first window last.
C1_Witness ==
    /\ pc = "returned"
    /\ NumWindows = 3
    /\ IntervalStartTime(1) = 23 * SecondsPerHour + 1800
    /\ transforms = <<3, 2, 1>>
    /\ writes = <<(<<1, 1>>), (<<1, 0>>), (<<0, 23>>)>>

\* C2: in Processor.run a failed query task surfaces as QueryExecutionError,
\* a failed transform as TransformError and a failed write as
\* StorageWriteError, each source having its own kind and no other.
C2_ErrorKindPerSource ==
    /\ (failure_source = "query") <=> (error.kind = "QueryExecutionError")
    /\ (failure_source = "transform") <=> (error.kind = "TransformError")
    /\ (failure_source = "write") <=> (error.kind = "StorageWriteError")
    /\ pc = "raised" => failure_source # "none"
    /\ pc = "returned" => error = NoError

\* C2 witness: run() raised StorageWriteError to its caller after a write
\* failed on the second window drained, the first being persisted.
C2_Witness ==
    /\ pc = "raised"
    /\ failure_source = "write"
    /\ error.kind = "StorageWriteError"
    /\ Len(transforms) = 2
    /\ Len(writes) = 1

\* C3 as stated: the error of every per-window failure (query, transform or
\* write) carries the start time of the window in which it occurred.
C3_Original ==
    failure_source \in {"query", "transform", "write"} =>
        error.tag = IntervalStartTime(cur)

\* C4: at every moment at most max_workers query tasks are executing, also
\* when the run has more windows than workers; the other submitted,
\* unfinished tasks wait in the pool's queue.
C4_AtMostMaxWorkersRunning ==
    /\ Cardinality(Running) <= max_workers
    /\ Cardinality(Busy) <= max_workers
    /\ \A i \in 1..NumWindows :
          futures[i] = "queued" <=> (\E k \in 1..Len(work_queue) : work_queue[k] = i)
    /\ \A i \in 1..submitted : futures[i] # "unsubmitted"

\* C4 witness: more windows than workers, every worker busy, a task waiting.
C4_Witness ==
    /\ NumWindows > max_workers
    /\ max_workers = 2
    /\ Cardinality(Running) = max_workers
    /\ Len(work_queue) >= 1

\* C5: run() has neither returned nor raised while a task it submitted is
\* queued or running: at its exit every submitted task has been started and
\* has finished, none was cancelled.
C5_ExitOnlyAfterAllTasksFinished ==
    pc \in {"returned", "raised"} =>
        /\ \A i \in 1..submitted : Finished(i)
        /\ work_queue = <<>>
        /\ Busy = {}
        /\ Len(queries) = submitted

\* C5 witness: run() raised after a fatal error that was observed while two
\* submitted tasks were still unfinished; both have run to their end.
C5_Witness ==
    /\ pc = "raised"
    /\ failure_source \in {"query", "transform", "write"}
    /\ at_error.unfinished >= 2
    /\ \A i \in 1..NumWindows : Finished(i)

\* The partitions whose directory is among the files fs, and those of which
\* fs holds a part, which a reader of the storage finds data of.
DirectoriesOf(fs) == {f[1] : f \in fs}
PartitionsWithData(fs) == {f[1] : f \in {g \in fs : g[2] # 0}}

\* C6 as stated: from the first fatal error on, no window is transformed or
\* written, and the set of partitions persisted at exit, those the storage
\* holds data of, equals the set persisted before the operation that raised
\* the error.
C6_Original ==
    (error # NoError /\ pc \in {"returned", "raised"}) =>
        /\ Len(transforms) = at_error.transforms
        /\ Len(writes) = at_error.writes
        /\ PartitionsWithData(storage) = PartitionsWithData(at_error.before)

\* C6: from the first fatal error on, no window is transformed or written,
\* also not one whose query has completed successfully, and every partition
\* written before the error stays written unchanged: the partitions completely
\* written are, from the error on, those written before it, file by file.
\* What the storage holds beyond them is what the failing write leaves of its
\* own window, which nothing removes: its directory and the parts its tasks
\* have written, then or later, in no partition a write has returned for; a
\* failing query or transform leaves nothing.
C6_NoWorkAfterFirstError ==
    error # NoError =>
        /\ Len(transforms) = at_error.transforms
        /\ Len(writes) = at_error.writes
        /\ pc \in {"shutdown", "raised"}
        /\ at_error.before \subseteq storage
        /\ CompletePartitions = DirectoriesOf(at_error.before)
        /\ CompletePartitions = WrittenPaths
        /\ \A f \in storage \ at_error.before :
              /\ failure_source = "write"
              /\ f[1] = CurPath
              /\ f[1] \notin WrittenPaths
        /\ failure_source # "write" => storage = at_error.before
        /\ at_error.storage \subseteq storage
        /\ Directories = DirectoriesOf(at_error.storage)

\* C6 witness: run() raised on a write failure with one partition written
\* before it; the failing write has left its directory with one part of two,
\* and a window whose query succeeded was never drained.
C6_Witness ==
    /\ pc = "raised"
    /\ failure_source = "write"
    /\ Cardinality(CompletePartitions) = 1
    /\ Cardinality(Directories) = 2
    /\ DOMAIN write_tasks = 1..2
    /\ Cardinality(PartsOf(CurPath)) = 1
    /\ \E i \in 1..NumWindows : futures[i] = "ok" /\ i \notin yielded

\* A transform failure leaves the storage as it was: one partition written
\* before it, nothing else.
C6_TransformFailureWitness ==
    /\ pc = "raised"
    /\ failure_source = "transform"
    /\ Cardinality(CompletePartitions) = 1
    /\ storage = at_error.before
    /\ \E i \in 1..NumWindows : futures[i] = "ok" /\ i \notin yielded

\* After run() has raised, a task of the failing write that was still at
\* work writes its part.
C6_PartWrittenAfterError ==
    /\ pc = "raised"
    /\ failure_source = "write"
    /\ storage # at_error.storage


\* -------------------------------------------- claims on get_hour_intervals

\* The call returned a list: both datetimes given, start_date < end_date.
ValidCall ==
    called /\ start_date # None /\ end_date # None /\ start_date < end_date

\* ceil((end_date - start_date) / 1 hour), stated without the code's arithmetic:
\* the least n with n hours >= end_date - start_date.
CeilHours ==
    CHOOSE n \in 0..(MaxHours + 2) :
        /\ n * SecondsPerHour >= end_date - start_date
        /\ (n - 1) * SecondsPerHour < end_date - start_date

Remainder == (end_date - start_date) % SecondsPerHour

LastEnd == hour_ranges[Len(hour_ranges)][2]

\* Number of returned windows that contain instant t.
Covering(t) ==
    Cardinality({i \in 1..Len(hour_ranges) :
                    hour_ranges[i][1] <= t /\ t <= hour_ranges[i][2]})

\* C7: for start < end, get_hour_intervals returns ceil((end - start) / 1h)
\* windows in ascending order, window i starting at start + i hours; each
\* window starts one second after the previous one ends (contiguous, no
\* overlap) and has start < end.
C7_CountOrderContiguity ==
    ValidCall =>
        LET n == Len(hour_ranges)
        IN  /\ n = CeilHours
            /\ n >= 1
            /\ hour_ranges[1][1] = start_date
            /\ \A i \in 1..n :
                  /\ hour_ranges[i][1] = start_date + (i - 1) * SecondsPerHour
                  /\ hour_ranges[i][1] < hour_ranges[i][2]
            /\ \A i \in 1..(n - 1) :
                  /\ hour_ranges[i + 1][1] = hour_ranges[i][2] + 1
                  /\ hour_ranges[i][1] < hour_ranges[i + 1][1]
                  /\ hour_ranges[i][2] < hour_ranges[i + 1][1]

\* C7 witness: a range of 2 h 30 min 1 s starting on a half hour gave 3 windows.
C7_Witness ==
    /\ ValidCall
    /\ start_date = 1800 /\ end_date = 3 * SecondsPerHour + 1
    /\ Len(hour_ranges) = 3
    /\ hour_ranges[3] = <<2 * SecondsPerHour + 1800, 3 * SecondsPerHour + 1799>>

\* C8 as stated: every window ends one hour minus one second after its start,
\* and when end - start is not a whole number of hours the last window ends
\* strictly after end, by less than one hour.
C8_Original ==
    ValidCall =>
        /\ \A i \in 1..Len(hour_ranges) :
              hour_ranges[i][2] = hour_ranges[i][1] + SecondsPerHour - 1
        /\ Remainder # 0 =>
              /\ LastEnd > end_date
              /\ LastEnd - end_date < SecondsPerHour

\* C8 amended: every window, the last included, ends one hour minus one
\* second after its start (no clipping to end); when end - start is not a
\* whole number of hours the last window ends at or after end, by less than
\* one hour, and it ends exactly at end only when the remainder is 59:59.
C8_LastWindowNotClipped ==
    ValidCall =>
        /\ \A i \in 1..Len(hour_ranges) :
              hour_ranges[i][2] = hour_ranges[i][1] + SecondsPerHour - 1
        /\ Remainder # 0 =>
              /\ LastEnd >= end_date
              /\ LastEnd - end_date < SecondsPerHour
              /\ (LastEnd = end_date) <=> (Remainder = SecondsPerHour - 1)

\* C8 witness: 1.5 hours from 00:00 gave a last window ending at 01:59:59,
\* half an hour (less one second) after end.
C8_Witness ==
    /\ ValidCall
    /\ start_date = 0 /\ end_date = SecondsPerHour + 1800
    /\ Len(hour_ranges) = 2
    /\ LastEnd = 2 * SecondsPerHour - 1
    /\ LastEnd > end_date

\* C9 as stated: the windows tile [start, end] exactly: every instant from
\* start to end inclusive lies in exactly one window and no window reaches
\* outside the range, the last one being truncated to end.
C9_Original ==
    ValidCall =>
        /\ \A t \in start_date..end_date : Covering(t) = 1
        /\ \A i \in 1..Len(hour_ranges) :
              start_date <= hour_ranges[i][1] /\ hour_ranges[i][2] <= end_date
        /\ LastEnd = end_date

\* C9 amended: every whole-second instant from start to end - 1 lies in
\* exactly one window; the instant end lies in exactly one window when
\* end - start is not a whole number of hours and in none when it is; no
\* window starts before start; the last window is not truncated: it ends at
\* start + N hours - 1 second, which is one second before end when
\* end - start is a whole number of hours, end itself when the remainder is
\* 59:59, and past end otherwise.
C9_TilingWithoutTruncation ==
    ValidCall =>
        /\ \A t \in start_date..(end_date - 1) : Covering(t) = 1
        /\ Covering(end_date) = IF Remainder = 0 THEN 0 ELSE 1
        /\ \A i \in 1..Len(hour_ranges) : start_date <= hour_ranges[i][1]
        /\ LastEnd = start_date + Len(hour_ranges) * SecondsPerHour - 1
        /\ Remainder = 0 => LastEnd = end_date - 1
        /\ Remainder = SecondsPerHour - 1 => LastEnd = end_date
        /\ Remainder \notin {0, SecondsPerHour - 1} => LastEnd > end_date

\* C9 witness: a range of 1 h 0 min 1 s gave two windows; the second reaches
\* 59 min 58 s past end, and the seam 00:59:59 / 01:00:00 is covered once each.
C9_Witness ==
    /\ ValidCall
    /\ start_date = 0 /\ end_date = SecondsPerHour + 1
    /\ Len(hour_ranges) = 2
    /\ Covering(SecondsPerHour - 1) = 1 /\ Covering(SecondsPerHour) = 1
    /\ LastEnd = end_date + SecondsPerHour - 2

\* C10: get_hour_intervals raises ValueError, returning no windows, exactly
\* when start is absent, end is absent, start = end or start > end; in every
\* other case it raises nothing and returns at least one window.
C10_InvalidRangeError ==
    called =>
        /\ raised \in {"none", "ValueError"}
        /\ (raised = "ValueError") <=>
              \/ start_date = None
              \/ end_date = None
              \/ start_date = end_date
              \/ start_date > end_date
        /\ raised = "ValueError" => hour_ranges = <<>>
        /\ raised = "none" => Len(hour_ranges) >= 1

\* C10 witness: start = end, both given, raised ValueError.
C10_Witness ==
    /\ called
    /\ start_date # None /\ start_date = end_date
    /\ raised = "ValueError" /\ hour_ranges = <<>>

\* ---------------------------- claims on get_date_range_for_past_days

\* Calendar day of a datetime.
DayOf(t) == t \div SecondsPerDay

\* C11: for days >= 1 and any current time, the range ends at 23:59:59 of
\* the day before current_time's day and starts at 00:00:00 of the day that
\* is `days` days before it, whatever the time of day of current_time; so
\* start < end and the range is exactly `days` whole days.
C11_PastDaysRange ==
    range_called =>
        /\ end_date = (DayOf(current_time) - 1) * SecondsPerDay + 86399
        /\ start_date = (DayOf(current_time) - days) * SecondsPerDay
        /\ start_date < end_date
        /\ end_date - start_date + 1 = days * SecondsPerDay

\* C11 witness: 3 days back from 12:34:56 of day 4: days 1, 2 and 3.
C11_Witness ==
    /\ range_called
    /\ days = 3
    /\ current_time = 4 * SecondsPerDay + 12 * SecondsPerHour + 34 * 60 + 56
    /\ start_date = SecondsPerDay
    /\ end_date = 4 * SecondsPerDay - 1

\* Number of times the miss of key x of dictionary n has been logged.
LoggedTimes(n, x) ==
    Cardinality({i \in 1..Len(logger_info) : logger_info[i] = <<n, x>>})

\* The pair a lookup of key x in dictionary n must give.
ExpectedPair(n, x) ==
    IF x \in DOMAIN dictionaries[n] THEN dictionaries[n][x] ELSE <<0, 0>>

\* No lookup has passed the test of transform_ops.py:60 without having
\* returned.
NoLookupInProgress ==
    \A p \in DOMAIN tasks : tasks[p].pc = "test"

\* What C12 says of the pairs returned: a present key gives its mapped pair,
\* an absent key (0, 0), for the direct calls and for every row of every part
\* written by the computation of a transformed frame.
MappedPairsReturned ==
    /\ last_call # <<>> => ret = ExpectedPair(last_call[1], last_call[2])
    /\ \A p \in DOMAIN parquet : \A i \in 1..Len(parquet[p]) :
          LET in == df.partitions[p][i].row
              out == parquet[p][i]
          IN  /\ out.device_type = ExpectedPair("device_dict", in.iddevice)[1]
              /\ out.device_brand = ExpectedPair("device_dict", in.iddevice)[2]
              /\ out.ad_category
                    = ExpectedPair("product_category_dict", in.idproduct_category)[1]
              /\ out.ad_sub_category
                    = ExpectedPair("product_category_dict", in.idproduct_category)[2]
              /\ out.content_category
                    = ExpectedPair("content_category_dict", in.idcategory)[1]
              /\ out.content_sub_category
                    = ExpectedPair("content_category_dict", in.idcategory)[2]

\* What C12 says of the log that holds of the code: a present key is never
\* logged, no key is logged before it is looked up, and once its lookups
\* have returned an absent key looked up has been logged at least once.
MissLoggedAtLeastOnce ==
    \A n \in DOMAIN dictionaries : \A x \in Keys :
        /\ x \in DOMAIN dictionaries[n] => LoggedTimes(n, x) = 0
        /\ <<n, x>> \notin lookups => LoggedTimes(n, x) = 0
        /\ (NoLookupInProgress /\ <<n, x>> \in lookups
               /\ x \notin DOMAIN dictionaries[n])
           => LoggedTimes(n, x) >= 1

\* C12: over any sequence of get_mapped_value calls on the dictionaries of one
\* Transformer (direct calls and the two lookups per row and id column that
\* the computation of a transformed frame makes, for this window and later
\* ones): a present key gives its mapped pair and is never logged, an absent
\* key gives (0, 0), and the miss of an absent key is logged exactly once
\* however many times it has been looked up: never a second time.
C12_Original ==
    /\ MappedPairsReturned
    /\ MissLoggedAtLeastOnce
    /\ \A n \in DOMAIN dictionaries : \A x \in Keys : LoggedTimes(n, x) <= 1

\* C12, the part of it that holds: the pairs returned, and each miss logged at
\* least once; calls that follow one another log it exactly once.
C12_PairsAndMissLoggedAtLeastOnce ==
    /\ MappedPairsReturned
    /\ MissLoggedAtLeastOnce
    /\ (\A n \in DictionaryNames : \A x \in Keys : <<n, x>> \in lookups => t_pc = "idle")
       => \A n \in DictionaryNames : \A x \in Keys : LoggedTimes(n, x) <= 1

\* Total number of rows of a sequence of partitions.
RECURSIVE CountRows(_)
CountRows(parts) ==
    IF parts = <<>> THEN 0 ELSE Len(Head(parts)) + CountRows(Tail(parts))

\* C15: transform_dask_df returns a frame whose column set is the input's
\* with the 16 renames applied, without iddevice, idproduct_category and
\* idcategory, and with the 8 derived columns; a column outside the rename map
\* and the dropped set is kept; the frame has the partitions of its input and,
\* once computed, as many rows as its input, date_time with its values and the
\* two calendar columns derived from it.
C15_TransformedColumnsAndRows ==
    df # NoTable =>
        /\ transformed_df.columns
              = ({IF c \in DOMAIN RenameDict THEN RenameDict[c] ELSE c : c \in df.columns}
                    \ {"iddevice", "idproduct_category", "idcategory"})
                \cup {"device_type", "device_brand", "ad_category", "ad_sub_category",
                      "content_category", "content_sub_category",
                      "hour_of_day", "day_of_week"}
        /\ Cardinality(DOMAIN RenameDict) = 16
        /\ \A c \in df.columns :
              (c \notin DOMAIN RenameDict
                 /\ c \notin {"iddevice", "idproduct_category", "idcategory"})
              => c \in transformed_df.columns
        /\ transformed_df.npartitions = Len(df.partitions)
        /\ t_pc = "written" =>
              /\ DOMAIN parquet = 1..Len(df.partitions)
              /\ CountRows([p \in 1..Len(df.partitions) |-> parquet[p]])
                    = CountRows(df.partitions)
        /\ \A p \in DOMAIN parquet :
              /\ Len(parquet[p]) = Len(df.partitions[p])
              /\ \A i \in 1..Len(parquet[p]) :
                    /\ parquet[p][i].date_time = df.partitions[p][i].row.date_time
                    /\ parquet[p][i].hour_of_day \in 0..23
                    /\ parquet[p][i].day_of_week \in 0..6
                    /\ \E w \in 0..1 :
                          df.partitions[p][i].row.date_time
                             - (w * 7 + parquet[p][i].day_of_week) * SecondsPerDay
                             - parquet[p][i].hour_of_day * SecondsPerHour
                          \in 0..(SecondsPerHour - 1)

\* The frame of a stream of a batch of 3 rows and a batch of 2 rows, two
\* partitions of 2 and 3 rows with the columns idos and extra, has been
\* transformed and written: os and extra are columns of the result, idos and
\* iddevice are not, and the five rows are in the parts written, the first a
\* Tuesday 23h, the second a Sunday 0h.
C15_Witness ==
    /\ t_pc = "written"
    /\ Len(df.partitions) = 2
    /\ Len(parquet[1]) = 2
    /\ Len(parquet[2]) = 3
    /\ {"idos", "extra"} \subseteq df.columns
    /\ {"os", "extra", "date_time", "device_type", "day_of_week"}
          \subseteq transformed_df.columns
    /\ transformed_df.columns \cap {"idos", "iddevice", "idcategory"} = {}
    /\ parquet[1][1].hour_of_day = 23
    /\ parquet[1][1].day_of_week = 1
    /\ parquet[1][2].hour_of_day = 0
    /\ parquet[1][2].day_of_week = 6

\* Rows of all the batches of the stream, in stream order.
RECURSIVE AllRows(_)
AllRows(batches) ==
    IF batches = <<>> THEN <<>> ELSE Head(batches) \o AllRows(Tail(batches))

\* Sum of the row counts of the batches.
RECURSIVE SumOfRowCounts(_)
SumOfRowCounts(batches) ==
    IF batches = <<>> THEN 0
    ELSE Len(Head(batches)) + SumOfRowCounts(Tail(batches))

\* Number of times row v occurs in a sequence of rows.
Occurrences(rows, v) == Cardinality({i \in 1..Len(rows) : rows[i] = v})

\* C13: when execute_query_to_dask_df returns, its frame holds the rows of
\* all the batches of the stream, each as many times as the stream holds it:
\* as many rows as the batches hold together, for any number of batches; over
\* a client that does not raise the call never raises, and a stream of no
\* batch gives the empty frame, of no column and no row.
C13_TableIsConcatenationOfBatches ==
    /\ q_pc = "returned" =>
          /\ Len(Rows(q_df)) = SumOfRowCounts(client_batches)
          /\ \A v \in 1..7 :
                Occurrences(Rows(q_df), v) = Occurrences(AllRows(client_batches), v)
          /\ client_batches = <<>> =>
                q_df.columns = {} /\ Rows(q_df) = <<>> /\ q_df = EmptyDf
    /\ client_fails = "none" => q_pc # "raised"

\* A stream of a batch of 2 rows and a batch of 3 rows has been returned as a
\* frame of 5 rows, in two partitions along the index: the first rows of the
\* two batches, then the others.
C13_Witness ==
    /\ q_pc = "returned"
    /\ client_batches = <<<<1, 2>>, <<5, 6, 7>>>>
    /\ Len(q_df.partitions) = 2
    /\ Rows(q_df) = <<1, 5, 2, 6, 7>>

\* A stream of no batch has been returned as an empty frame.
C13_EmptyStreamReturned ==
    q_pc = "returned" /\ client_batches = <<>> /\ Rows(q_df) = <<>>

\* C14 (as claimed): whenever the client raises, at submission or while the
\* stream is iterated, the exception that leaves execute_query_to_dask_df
\* is a QueryExecutionError.
C14_Original ==
    q_pc = "raised" => q_raised = "QueryExecutionError"

\* C16 (as claimed): every call made for a window, its query, its transform
\* and its write, is made on a pool worker thread.
C16_Original ==
    \A c \in calls : c.thread = "worker"

\* C16: of a window's pipeline only the query runs on a pool worker thread,
\* in the window's task; the transform and the write of its result are made
\* on the thread that called run(), in the draining loop, once the window's
\* task has finished.
C16_OnlyQueryOnPoolThread ==
    /\ \A c \in calls :
          /\ c.op = "query" => c.thread = "worker"
          /\ c.op \in {"transform", "write"} =>
                c.thread = "main" /\ futures[c.window] = "ok"
    /\ \A k \in 1..Len(transforms) :
          [op |-> "transform", window |-> transforms[k], thread |-> "main"] \in calls
    /\ Cardinality({c \in calls : c.op = "query"}) = Len(queries)
    /\ Cardinality({c \in calls : c.op = "write"}) >= Len(writes)

\* Window 1 was queried on a pool thread and is being written by the calling
\* thread while the query of window 2 runs on a pool thread.
C16_Witness ==
    /\ NumWindows >= 2
    /\ pc = "write"
    /\ cur = 1
    /\ futures[2] = "running"
    /\ [op |-> "query", window |-> 1, thread |-> "worker"] \in calls
    /\ [op |-> "transform", window |-> 1, thread |-> "main"] \in calls
    /\ [op |-> "query", window |-> 2, thread |-> "worker"] \in calls

\* C17: a window is transformed and written only after its query task has
\* finished, and in the draining loop any finished, not yet drained window
\* can be the next one drained, also while an earlier-submitted window's
\* query is still queued or running.
C17_DrainedInCompletionOrder ==
    /\ \A k \in 1..Len(transforms) :
          futures[transforms[k]] = "ok" /\ transforms[k] \in yielded
    /\ pc \in {"transform", "write"} => futures[cur] = "ok" /\ cur \in yielded
    /\ \A f \in yielded : futures[f] \in {"ok", "failed"}
    /\ pc = "drain" =>
          \A f \in 1..submitted :
             (futures[f] \in {"ok", "failed"} /\ f \notin yielded)
                => ENABLED (DrainQueryOkOf(f) \/ DrainQueryFailedOf(f))

\* Window 2 has been transformed and written while the query of window 1,
\* submitted before it, is still running.
C17_Witness ==
    /\ pc = "drain"
    /\ transforms = <<2>>
    /\ Len(writes) = 1
    /\ futures[1] = "running"

\* C18 (as claimed): in the script a failed transform or write surfaces as
\* StorageWriteError, and only a failed query task surfaces as
\* QueryExecutionError.
C18_Original ==
    /\ failure_source \in {"transform", "write"} =>
          error.kind = "StorageWriteError"
    /\ error.kind = "QueryExecutionError" => failure_source = "query"

\* Normalized brand name of the i-th device of the catalog.
BrandNameAt(i) == Normalize(devices_data[i].name)

\* The normalized brand names of the catalog.
BrandNames == {BrandNameAt(i) : i \in 1..Len(devices_data)}

\* j such that n is the j-th distinct normalized name met in the catalog.
FirstSeenRank(n) ==
    LET first == CHOOSE i \in 1..Len(devices_data) :
                    /\ BrandNameAt(i) = n
                    /\ \A h \in 1..(i - 1) : BrandNameAt(h) # n
    IN  Cardinality({BrandNameAt(h) : h \in 1..first})

\* The brand indices stored in device_dict.
StoredBrandIndices == {device_dict[i][2] : i \in DOMAIN device_dict}

\* The ids of the catalog are pairwise distinct.
DistinctDeviceIds ==
    \A a, b \in 1..Len(devices_data) :
        a # b => devices_data[a].id # devices_data[b].id

\* C19 (as claimed): after the load, over any catalog with k distinct
\* normalized brand names, the brand indices stored in device_dict are
\* exactly 1..k, two devices have the same stored index if and only if
\* their normalized names are equal, and no device has index 0.
C19_Original ==
    d_pc = "loaded" =>
        /\ StoredBrandIndices = 1..Cardinality(BrandNames)
        /\ \A a, b \in 1..Len(devices_data) :
              device_dict[devices_data[a].id][2] = device_dict[devices_data[b].id][2]
                 <=> BrandNameAt(a) = BrandNameAt(b)
        /\ 0 \notin StoredBrandIndices

\* C19: after the load the j-th distinct normalized brand name met in the
\* catalog has index j, so the indices given to the k names are 1..k; each
\* id of device_dict holds the index of the name of the last device listed
\* with that id, never 0; and over a catalog whose ids are pairwise distinct
\* the stored indices are exactly 1..k and two devices have the same stored
\* index if and only if their normalized names are equal.
C19_DenseFirstSeenBrandIndices ==
    d_pc = "loaded" =>
        /\ DOMAIN device_brand = BrandNames
        /\ \A n \in BrandNames : device_brand[n] = FirstSeenRank(n)
        /\ {device_brand[n] : n \in BrandNames} = 1..Cardinality(BrandNames)
        /\ DOMAIN device_dict = {devices_data[i].id : i \in 1..Len(devices_data)}
        /\ \A i \in 1..Len(devices_data) :
              (\A h \in (i + 1)..Len(devices_data) :
                  devices_data[h].id # devices_data[i].id)
              => device_dict[devices_data[i].id]
                    = <<devices_data[i].device_type.id, FirstSeenRank(BrandNameAt(i))>>
        /\ StoredBrandIndices \subseteq 1..Cardinality(BrandNames)
        /\ DistinctDeviceIds =>
              /\ StoredBrandIndices = 1..Cardinality(BrandNames)
              /\ \A a, b \in 1..Len(devices_data) :
                    device_dict[devices_data[a].id][2]
                       = device_dict[devices_data[b].id][2]
                    <=> BrandNameAt(a) = BrandNameAt(b)

\* The catalog "c", "A b", "a_b" with ids 1, 2, 3 has been loaded: c has
\* index 1, and "A b" and "a_b", both a_b once normalized, have index 2.
C19_Witness ==
    /\ d_pc = "loaded"
    /\ Len(devices_data) = 3
    /\ [i \in 1..3 |-> devices_data[i].id] = <<1, 2, 3>>
    /\ [i \in 1..3 |-> devices_data[i].name]
          = <<(<<"c">>), (<<"A", " ", "b">>), (<<"a", "_", "b">>)>>
    /\ device_dict[1][2] = 1
    /\ device_dict[2][2] = 2
    /\ device_dict[3][2] = 2
    /\ device_brand[<<"a", "_", "b">>] = 2

\* No query task, transform or write has failed, and get_client has not.
NoFailure ==
    /\ failure_source = "none"
    /\ \A i \in 1..NumWindows : futures[i] # "failed"

\* run() has returned and the storage holds the partition of every window.
AllWritten ==
    /\ pc = "returned"
    /\ Directories = {FilePath(IntervalStartTime(i)) : i \in 1..NumWindows}
    /\ CompletePartitions = Directories
    /\ Cardinality(Directories) = NumWindows

\* C20: under fair scheduling of the calling thread and the pool threads,
\* a run in which nothing ever fails eventually returns with the partitions
\* of all N windows written, also when N > max_workers.
C20_RunEventuallyReturns ==
    ([]NoFailure) => <>AllWritten

\* A run over more windows than workers has returned, every partition written.
C20_Witness ==
    /\ AllWritten
    /\ max_workers = 1
    /\ NumWindows = 3
    /\ NoFailure

\* The windows handed to transform_dask_df whose transform has returned.
Transformed == {transforms[k] : k \in 1..Len(transforms)}

\* C21 as stated: at every moment at most one window is being transformed or
\* written, and no two threads are at the same time between the test and the
\* add of get_mapped_value on the logged keys of the shared Transformer.
C21_Original ==
    /\ Cardinality({c \in ActiveCalls : c.op \in {"transform", "write"}}) <= 1
    /\ Cardinality({DaskThread(p) : p \in TasksMutating}) <= 1

\* Two threads of dask's scheduler, computing two partitions of the frame of
\* one window inside the one write in progress, have both found the key
\* missing from the logged keys and are both about to log and add it.
C21_TwoThreadsMutating ==
    /\ pc = "write"
    /\ TasksMutating = {1, 2}
    /\ WriteTaskKey(1) = WriteTaskKey(2)
    /\ WriteTaskKey(1) \notin logged_device_keys
    /\ {c.thread : c \in {a \in ActiveCalls : a.op = "get_mapped_value"}}
          = {DaskThread(1), DaskThread(2)}

\* The part of C21 that holds: at every moment at most one window is being
\* transformed or written, by the thread that called run(); the pool threads
\* run queries only and never a lookup; the lookups in progress are those of
\* one window, made either by the calling thread inside its transform (on
\* the stand-in values) or by threads of dask's scheduler inside its write,
\* never by both; and the draining loop takes one completed result at a
\* time: every result it took before the current one has been transformed and
\* written, or ended the loop with its error.
C21_OneWindowInTransformOrWrite ==
    /\ Cardinality({c \in ActiveCalls : c.op \in {"transform", "write"}}) <= 1
    /\ \A c \in ActiveCalls : c.op \in {"transform", "write"} => c.thread = "main"
    /\ \A c \in ActiveCalls : c.thread = QueryThread => c.op = "query"
    /\ \A c \in ActiveCalls : c.op = "get_mapped_value" =>
          /\ c.window = cur
          /\ c.thread # QueryThread
          /\ c.thread = "main" => pc = "transform" /\ TasksAtWork = {}
          /\ c.thread # "main" => pc = "write" \/ failure_source = "write"
    /\ \A c \in calls : c.op \in {"transform", "write"} => c.thread = "main"
    /\ \A f \in yielded :
          futures[f] = "ok" =>
             \/ (pc \in {"transform", "write"} /\ cur = f)
             \/ (failure_source \in {"transform", "write"} /\ cur = f)
             \/ (f \in Transformed
                   /\ Complete(FilePath(IntervalStartTime(f))))
    /\ Len(transforms) <= Len(writes) + 1

\* Window 2 is being transformed by the calling thread while the query of
\* window 1 runs on a pool thread and the finished result of window 3 waits
\* for the next turn of the loop.
C21_OneWindowWitness ==
    /\ NumWindows = 3
    /\ pc = "transform"
    /\ cur = 2
    /\ futures[1] = "running"
    /\ futures[3] = "ok"
    /\ 3 \notin yielded
    /\ ActiveCalls = {Call("query", 1, QueryThread),
                      Call("transform", 2, TransformThread),
                      Call("get_mapped_value", 2, TransformThread)}

\* C22: get_hour_intervals over the range of get_date_range_for_past_days(
\* days, current_time) raises nothing and returns exactly 24 * days windows:
\* the first starts at the range's start, each next one starts one second
\* after the one before ends, each lasts one hour less one second, and the
\* last ends exactly at the range's end.
C22_PastDaysRangeTiledByWholeHours ==
    (range_called /\ called) =>
        /\ raised = "none"
        /\ Len(hour_ranges) = 24 * days
        /\ hour_ranges[1][1] = start_date
        /\ hour_ranges[Len(hour_ranges)][2] = end_date
        /\ \A i \in 1..Len(hour_ranges) :
              /\ hour_ranges[i][1] = start_date + (i - 1) * 3600
              /\ hour_ranges[i][2] = start_date + i * 3600 - 1
        /\ \A t \in {end_date - 1, end_date, start_date, start_date + 3600} :
              Cardinality({i \in 1..Len(hour_ranges) :
                              hour_ranges[i][1] <= t /\ t <= hour_ranges[i][2]}) = 1

\* The range of the 2 days before 00:00:01 of day 5 has been cut into 48
\* windows, the last ending at 23:59:59 of day 4.
C22_Witness ==
    /\ range_called
    /\ called
    /\ days = 2
    /\ current_time = 5 * SecondsPerDay + 1
    /\ Len(hour_ranges) = 48
    /\ hour_ranges[1] = <<3 * SecondsPerDay, 3 * SecondsPerDay + 3599>>
    /\ hour_ranges[48][2] = 5 * SecondsPerDay - 1

\* C23: a run of main() with a storage type other than 'local' ('remote',
\* also when --storage_type is not given) ends with the NotImplementedError
\* of the S3Storage constructor, the first thing main() builds: the query
\* is never read, no database client is created, no task is submitted, no
\* query is issued and no partition is written.
C23_RemoteStorageStopsBeforeAnyWork ==
    (variant = "script" /\ StorageType # "local") =>
        /\ argv_storage_type \in {"absent", "remote"}
        /\ pc \in {"main", "raised"}
        /\ pc = "main" => setup = <<>> /\ error = NoError
        /\ pc = "raised" =>
              /\ error.kind = "NotImplementedError"
              /\ setup = <<"S3Storage">>
        /\ \A k \in 1..Len(setup) : setup[k] # "read_query_from_file"
        /\ hour_intervals = <<>>
        /\ submitted = 0
        /\ work_queue = <<>>
        /\ calls = {}
        /\ queries = <<>>
        /\ transforms = <<>>
        /\ writes = <<>>
        /\ storage = {}

\* main() run without --storage_type has ended with NotImplementedError.
C23_Witness ==
    /\ variant = "script"
    /\ argv_storage_type = "absent"
    /\ pc = "raised"
    /\ error.kind = "NotImplementedError"
    /\ setup = <<"S3Storage">>
    /\ queries = <<>>

====
